---- MODULE Spec2Model ----
(***************************************************************************)
(* Semantic-analysis core of the ehlit front-end (src/ehlit/parser/ast.py) *)
(* as a state machine: the node store, the scope graph and its lookups,    *)
(* the import / include resolver, the build pass of build_ast and the      *)
(* call-site lowering inside flow scopes.                                  *)
(***************************************************************************)
EXTENDS Integers, Sequences, FiniteSets, TLC

VARIABLES
  files,      \* path -> list of parsed top-level items (the parser collaborators' answers)
  dirs,       \* path -> listdir of that directory
  nodes,      \* the node store: nodes[1] is the AST root, the others are declarations and scopes
  failures,   \* AST.failures
  imported,   \* the list bound to the global `imported`
  included,   \* the list bound to the global `included`
  aliased,    \* TRUE when both globals are bound to the same list object
  parsed,     \* the calls made to source.parse / c_header.parse, in order
  pc,         \* position of build_ast
  cur,        \* the function definition whose body is being built (0 when none)
  abort,      \* the exception that ended the build, "" when none
  sid,        \* number of statement objects created so far
  snap        \* the observable tree state recorded when a built node is built again

vars == <<files, dirs, nodes, failures, imported, included, aliased, parsed, pc, cur, abort,
          sid, snap>>

\* ---------------------------------------------------------------- bounds

MaxScopeNodes == 3   \* top-level nodes of the root module and of module a together
MaxFsNodes == 2      \* import / include nodes per source file in the resolver runs
MaxActuals == 3      \* actuals of a call
MaxParams == 2       \* fixed parameters of a function
MaxBody == 2         \* statements of a parsed flow-scope body
MaxTypeDepth == 3    \* reference and array layers of a declared type

\* ---------------------------------------------------------------- names

NoName == ""
Names == {"x", "y"}
Other(n) == IF n = "x" THEN "y" ELSE "x"
RootId == 1
NoErr == [msg |-> "", sym |-> ""]
Nothing == [res |-> 0, err |-> NoErr]
PrivateErr(sym) == [msg |-> "accessing to private symbol", sym |-> sym]
ImportPaths == << <<"src">>, <<"cwd">>, <<"out">> >>
EhExt(p) == [p EXCEPT ![Len(p)] = @ \o ".eh"]

\* Declaration, the class whose instances carry _qualifiers
DeclarationKinds == {"var", "param", "fdecl", "fdef"}
\* DeclarationBase, every node that answers get_declaration by name
DeclarationBaseKinds == DeclarationKinds \cup {"struct", "alias"}
ExternKinds == {"import", "include"}

\* a local variable of the code: `v` is evaluated once and bound to the parameter of F
Bind(v, F(_)) == CHOOSE r \in {F(a) : a \in {v}} : TRUE

\* ---------------------------------------------------------------- types and type symbols

\* a Type, or the Symbol that names one: the container layers (outermost first) over a name
BuiltinType(name) == [pre |-> <<>>, base |-> name]
ReferenceType(t) == [t EXCEPT !.pre = <<"ref">> \o @]
ArrayType(t) == [t EXCEPT !.pre = <<"arr">> \o @]
\* the symbols Reference(child).build (a ReferenceToType), Array(child, None) and
\* CompoundIdentifier([Identifier(name)]) of a type name
ReferenceToType(s) == [s EXCEPT !.pre = <<"ref">> \o @]
Array(s) == [s EXCEPT !.pre = <<"arr">> \o @]
TypeName(name) == [pre |-> <<>>, base |-> name]
\* cast = None
NoCast == [pre |-> <<>>, base |-> ""]
\* the type an unbuilt array symbol cannot give: its decl asserts that its child has one
NoType == [pre |-> <<>>, base |-> "AssertionError"]

Child(t) == [t EXCEPT !.pre = Tail(@)]
IsReferenceType(t) == t.pre # <<>> /\ Head(t.pre) = "ref"
IsArrayType(t) == t.pre # <<>> /\ Head(t.pre) = "arr"
IsContainer(t) == t.pre # <<>>

\* Type.any_memory_offset, the default that BuiltinType, ArrayType and ReferenceType override
PointerShaped(t) == 1

RECURSIVE AnyMemoryOffset(_)
\* any_memory_offset of a type: ArrayType and ReferenceType hand out their child's,
\* BuiltinType 0 for @str and 1 for every other name
AnyMemoryOffset(t) ==
  IF IsContainer(t) THEN AnyMemoryOffset(Child(t))
  ELSE IF t.base = "@str" THEN 0 ELSE 1

\* any_memory_offset of the symbol of a type: Array answers 0, ReferenceToType asks the
\* type of its child, an identifier the type it names
SymbolAnyMemoryOffset(s) ==
  IF IsArrayType(s) THEN 0
  ELSE IF IsReferenceType(s) THEN AnyMemoryOffset(Child(s))
  ELSE AnyMemoryOffset(s)

RECURSIVE RefOffset(_), InnerChild(_), FromAny(_)
\* ReferenceType.ref_offset and ReferenceToType.ref_offset: the outer reference layers
RefOffset(t) == IF IsReferenceType(t) THEN RefOffset(Child(t)) + 1 ELSE 0

\* ReferenceType.inner_child
InnerChild(t) == IF IsReferenceType(Child(t)) THEN InnerChild(Child(t)) ELSE Child(t)

\* the type with its outer reference layers removed, as auto_cast compares types
Unreferenced(t) == IF IsReferenceType(t) THEN InnerChild(t) ELSE t

\* BuiltinType.from_any, ContainerStructure.from_any for a structure name and
\* FunctionType.from_any
BuiltinFromAny(t) ==
  IF t.base \in {"@str", "@func"} THEN TypeName(t.base)
  ELSE ReferenceToType(TypeName(t.base))

\* ArrayType.from_any
ArrayFromAny(t) ==
  IF IsContainer(Child(t)) THEN Array(FromAny(Child(t))) ELSE Array(TypeName(t.base))

\* ReferenceType.from_any
ReferenceFromAny(t) ==
  IF AnyMemoryOffset(Child(t)) = 1 /\ ~ IsReferenceType(Child(t)) THEN FromAny(Child(t))
  ELSE ReferenceToType(FromAny(Child(t)))

\* target.from_any()
FromAny(t) ==
  CASE IsReferenceType(t) -> ReferenceFromAny(t)
    [] IsArrayType(t) -> ArrayFromAny(t)
    [] OTHER -> BuiltinFromAny(t)

\* symbol.typ: Reference.typ, Array.typ and Identifier.typ rebuild the type layer by layer
RECURSIVE SymbolTyp(_)
SymbolTyp(s) ==
  CASE IsReferenceType(s) -> ReferenceType(SymbolTyp(Child(s)))
    [] IsArrayType(s) -> ArrayType(SymbolTyp(Child(s)))
    [] OTHER -> BuiltinType(s.base)

IntType == BuiltinType("@int")
AnyType == BuiltinType("@any")
FuncType == BuiltinType("@func")

\* self_typ != target_typ: builtin types compare by name, container types by identity
Differ(a, b) == IsContainer(a) \/ IsContainer(b) \/ a.base # b.base

RECURSIVE Referenced(_, _), InnermostReference(_)
\* while target_ref_count > 0: res = Reference(res).build(self)
Referenced(res, n) == IF n > 0 THEN Referenced(ReferenceToType(res), n - 1) ELSE res

\* the end of _from_any_aligned: the referencing the developer asked for
AskedReferences(res, count) ==
  IF count = 0 THEN res
  ELSE Referenced(res, count - (RefOffset(res) - AnyMemoryOffset(SymbolTyp(res))))

\* while isinstance(res.child, ReferenceToType): res = res.child
InnermostReference(res) ==
  IF IsReferenceType(Child(res)) THEN InnermostReference(Child(res)) ELSE res

\* _from_any_aligned when not casting: the minimal referencing needed
Reduced(res) ==
  IF ~ IsReferenceType(res) THEN res
  ELSE IF AnyMemoryOffset(SymbolTyp(Child(InnermostReference(res)))) = 0
       THEN Child(InnermostReference(res))
       ELSE InnermostReference(res)

\* a conversion that hands back the symbol of the value's own type
SourceAligned(target, source) == AskedReferences(SymbolTyp(source), RefOffset(source))

\* Value._from_any_aligned(target, source, True) for a target that is a Type
FromAnyAligned(target, source) == AskedReferences(FromAny(target), RefOffset(source))

\* Value._from_any_aligned(self, target, False) for a value of type vtyp
ToAnyAligned(vtyp, target) == AskedReferences(Reduced(FromAny(vtyp)), RefOffset(target))

\* Value.auto_cast(target) for a value of type vtyp and a target that is a Type: the cast
\* and the ref_offset the value is left with
AutoCast(vtyp, target) ==
  IF Differ(Unreferenced(vtyp), Unreferenced(target)) /\ Unreferenced(vtyp) = AnyType
  THEN Bind(FromAnyAligned(target, vtyp), LAMBDA cast :
         [cast |-> cast, ref_offset |-> RefOffset(SymbolTyp(cast)) - RefOffset(target)])
  ELSE IF Differ(Unreferenced(vtyp), Unreferenced(target)) /\ Unreferenced(target) = AnyType
       THEN Bind(ToAnyAligned(vtyp, target), LAMBDA sym :
              [cast |-> NoCast, ref_offset |-> RefOffset(vtyp) - RefOffset(sym)])
       ELSE [cast |-> NoCast, ref_offset |-> RefOffset(vtyp) - RefOffset(target)]

\* ---------------------------------------------------------------- parser output

NoParams == <<>>
Item(k, name, priv, use, lib, params, variadic, body) ==
  [k |-> k, name |-> name, priv |-> priv, use |-> use, lib |-> lib,
   params |-> params, variadic |-> variadic, body |-> body, typ |-> IntType,
   vkind |-> "id", path |-> <<>>, incomplete |-> FALSE]
\* the item with the declared type (the return type, for a function) `typ` and an
\* initialiser of kind `vkind`: an identifier, a call without actuals or the null literal
Typed(it, typ, vkind) == [it EXCEPT !.typ = typ, !.vkind = vkind]
Param(name, def) == [name |-> name, def |-> def, typ |-> IntType]
\* a field of a structure, of the declared type `typ`
Field(name, typ) == [Param(name, FALSE) EXCEPT !.typ = typ]
\* the item whose initialiser is the compound identifier it.use . path[1] . path[2] ...
Dotted(it, path) == [it EXCEPT !.path = path]
\* the structure item declared without a field list
Incomplete(it) == [it EXCEPT !.incomplete = TRUE]

\* ---------------------------------------------------------------- node store

NewNode(k, name) ==
  [k |-> k, name |-> name, priv |-> FALSE, use |-> NoName, lib |-> <<>>,
   params |-> <<>>, variadic |-> FALSE, def |-> FALSE, srcbody |-> <<>>,
   parent |-> 0, built |-> FALSE, nbuilt |-> 0, dtype |-> "EHLIT",
   res |-> 0, src |-> 0, syms |-> <<>>, declarations |-> <<>>,
   predeclarations |-> <<>>, body |-> <<>>, cond |-> <<>>, counter |-> 0,
   gen_var_count |-> 0, typ |-> IntType, vkind |-> "id", cast |-> NoCast,
   ref_offset |-> 0, path |-> <<>>, incomplete |-> FALSE, tdecl |-> 0,
   decls |-> <<>>, parses |-> 0, have_return |-> FALSE]

ParamNode(p) == [NewNode("param", p.name) EXCEPT !.def = p.def, !.typ = p.typ]

ItemNode(it, pids) ==
  [NewNode(it.k, it.name) EXCEPT !.priv = it.priv, !.use = it.use, !.lib = it.lib,
                                 !.params = pids, !.variadic = it.variadic,
                                 !.srcbody = it.body, !.typ = it.typ,
                                 !.vkind = it.vkind, !.path = it.path,
                                 !.incomplete = it.incomplete]

\* the node objects the parser creates for one item: its parameters, then the item
Alloc(ns, it) ==
  LET base == Len(ns)
      np == Len(it.params)
      ps == [i \in 1..np |-> ParamNode(it.params[i])]
      pids == [i \in 1..np |-> base + i]
  IN [ns |-> (ns \o ps) \o <<ItemNode(it, pids)>>, id |-> base + np + 1]

RECURSIVE AllocAll(_, _)
AllocAll(ns, items) ==
  IF items = <<>> THEN [ns |-> ns, ids |-> <<>>]
  ELSE Bind(Alloc(ns, Head(items)), LAMBDA a :
       Bind(AllocAll(a.ns, Tail(items)), LAMBDA r :
         [ns |-> r.ns, ids |-> <<a.id>> \o r.ids]))

\* ---------------------------------------------------------------- lookup

NameOf(ns, id) ==
  IF ns[id].k = "alias" /\ ns[id].src = 0 THEN NoName ELSE ns[id].name

Hit(r) == r.res # 0 \/ r.err # NoErr


RECURSIVE GetDeclaration(_, _, _), ScanGet(_, _, _, _)
\* node.get_declaration(sym)
GetDeclaration(ns, id, sym) ==
  IF ns[id].k \in ExternKinds THEN ScanGet(ns, ns[id].syms, 1, sym)
  ELSE IF ns[id].k \in DeclarationBaseKinds /\ NameOf(ns, id) = sym
       THEN [res |-> id, err |-> NoErr]
       ELSE Nothing

\* for decl in ids: res, err = decl.get_declaration(sym); return on a result or an error
ScanGet(ns, ids, i, sym) ==
  IF i > Len(ids) THEN Nothing
  ELSE Bind(GetDeclaration(ns, ids[i], sym), LAMBDA r :
         IF Hit(r) THEN r ELSE ScanGet(ns, ids, i + 1, sym))

\* a lookup answer together with the store it leaves behind
Found(r, ns) == [res |-> r.res, err |-> r.err, ns |-> ns]

IsPrivate(ns, id) == ns[id].k \in DeclarationKinds /\ ns[id].priv

\* the tail of Scope.find_declaration: a result that is not built yet is a predeclaration
AddPredeclaration(id, r) ==
  IF r.res # 0 /\ ~ r.ns[r.res].built
  THEN [r EXCEPT !.ns[id].predeclarations = Append(@, r.res)]
  ELSE r

RECURSIVE FindDeclaration(_, _, _)
\* Scope.find_declaration
ScopeFindDeclaration(ns, id, sym) ==
  Bind(ScanGet(ns, ns[id].declarations, 1, sym), LAMBDA own :
    IF Hit(own) THEN Found(own, ns)
    ELSE Bind(FindDeclaration(ns, ns[id].parent, sym), LAMBDA up :
           AddPredeclaration(id, up)))

\* UnorderedScope.find_declaration: scope_contents first
UnorderedFindDeclaration(ns, id, sym) ==
  Bind(ScanGet(ns, ns[id].syms, 1, sym), LAMBDA contents :
    IF Hit(contents) THEN Found(contents, ns)
    ELSE ScopeFindDeclaration(ns, id, sym))

\* a rejection that hands the private declaration out together with the error
Flagged(r, sym) == [res |-> r.res, err |-> PrivateErr(sym), ns |-> r.ns]

\* return None, 'accessing to private symbol `sym`'
Rejected(r, sym) == [res |-> 0, err |-> PrivateErr(sym), ns |-> r.ns]

\* Import.find_declaration
ImportFindDeclaration(ns, id, sym) ==
  Bind(UnorderedFindDeclaration(ns, id, sym), LAMBDA r :
    IF r.res # 0 /\ IsPrivate(r.ns, r.res) THEN Rejected(r, sym) ELSE r)

\* AST.find_declaration: the nodes, then the declarations; no parent, no predeclaration
AstFindDeclaration(ns, id, sym) ==
  Bind(ScanGet(ns, ns[id].syms, 1, sym), LAMBDA contents :
    IF Hit(contents) THEN Found(contents, ns)
    ELSE Found(ScanGet(ns, ns[id].declarations, 1, sym), ns))

\* FunctionDefinition.find_declaration: the name vargs stands for a new VArgs declaration
\* of a variadic function and is an error in any other function
FunctionFindDeclaration(ns, id, sym) ==
  IF sym # "vargs" THEN ScopeFindDeclaration(ns, id, sym)
  ELSE IF ~ ns[id].variadic
  THEN [res |-> 0, err |-> [msg |-> "use of vargs in a non variadic function", sym |-> sym],
        ns |-> ns]
  ELSE [res |-> Len(ns) + 1, err |-> NoErr,
        ns |-> Append(ns, [NewNode("var", "vargs") EXCEPT
                             !.typ = [pre |-> <<"arr">>, base |-> "@int"]])]

\* node.find_declaration(sym): result, error and the store with the predeclarations the
\* lookup recorded
FindDeclaration(ns, id, sym) ==
  CASE ns[id].k = "ast" -> AstFindDeclaration(ns, id, sym)
    [] ns[id].k = "import" -> ImportFindDeclaration(ns, id, sym)
    [] ns[id].k = "include" -> UnorderedFindDeclaration(ns, id, sym)
    [] ns[id].k = "fdef" -> FunctionFindDeclaration(ns, id, sym)
    [] ns[id].k \in {"cs", "struct"} -> ScopeFindDeclaration(ns, id, sym)
    [] OTHER -> FindDeclaration(ns, ns[id].parent, sym)

\* Symbol.solve: follow Symbol declarations (aliases) down to a non-Symbol declaration
Canonical(ns, id) ==
  IF id # 0 /\ ns[id].k = "alias" THEN ns[id].src ELSE id

\* Node.is_child_of(Import)
RECURSIVE IsChildOfImport(_, _)
IsChildOfImport(ns, id) ==
  IF ns[id].k = "ast" THEN FALSE
  ELSE ns[id].k = "import" \/ IsChildOfImport(ns, ns[id].parent)

\* ---------------------------------------------------------------- state threading

\* the mutable program state handed through a build
State == [ns |-> nodes, failures |-> failures, imp |-> imported, inc |-> included,
          aliased |-> aliased, parsed |-> parsed, abort |-> abort, sid |-> sid]

Install(S) ==
  /\ nodes' = S.ns
  /\ failures' = S.failures
  /\ imported' = S.imp
  /\ included' = S.inc
  /\ aliased' = S.aliased
  /\ parsed' = S.parsed
  /\ abort' = S.abort
  /\ sid' = S.sid

InList(x, l) == \E i \in 1..Len(l) : l[i] = x

\* AST.fail, reached through Node.fail from any node
Fail(S, sev, msg, sym) ==
  [S EXCEPT !.failures = Append(@, [sev |-> sev, msg |-> msg, sym |-> sym])]

\* Node.build
NodeBuild(ns, id, parent) ==
  [ns EXCEPT ![id].parent = parent, ![id].built = TRUE, ![id].nbuilt = @ + 1]

\* parent.declare(decl), propagated upwards until a Scope stores it
RECURSIVE Declare(_, _, _)
Declare(ns, from, id) ==
  CASE ns[from].k \in {"ast", "import", "fdef", "cs", "struct"} ->
         [ns EXCEPT ![from].declarations = Append(@, id)]
    [] ns[from].k = "include" ->
         [ns EXCEPT ![id].dtype = "C", ![from].declarations = Append(@, id)]
    [] OTHER -> Declare(ns, ns[from].parent, id)

\* ---------------------------------------------------------------- import / include resolver

\* imported.append(path): both globals see it when they are bound to one list
RecordImported(S, p) ==
  [S EXCEPT !.imp = Append(@, p), !.inc = IF S.aliased THEN Append(@, p) ELSE @]

\* an Include.parse that loses the path it was asked for
ForgetIncluded(S, p) == S

\* included.append(path)
RecordIncluded(S, p) ==
  [S EXCEPT !.inc = Append(@, p), !.imp = IF S.aliased THEN Append(@, p) ELSE @]

\* what a parse() of an inclusion node hands back: the state, the nodes, or a ParseError
Parsed(S, items, raised) == [S |-> S, items |-> items, raised |-> raised]

\* source.parse(path) / c_header.parse(path): the call is logged, the answer is the
\* file's item list, or a ParseError
CallParser(S, p) ==
  Parsed([S EXCEPT !.parsed = Append(@, p)],
         IF files[p].err THEN <<>> ELSE files[p].nodes, files[p].err)

RECURSIVE ImportDirFrom(_, _, _)
\* the body of the loop of Import.import_dir for the entry `full` that is not yet recorded
ImportDirEntry(S, full) ==
  IF full \in DOMAIN dirs THEN ImportDirFrom(S, full, 1)
  ELSE IF full \in DOMAIN files THEN CallParser(S, full)
  ELSE Parsed(S, <<>>, FALSE)

\* Import.import_dir, from the i-th entry of listdir(dir)
ImportDirFrom(S, dir, i) ==
  IF i > Len(dirs[dir]) THEN Parsed(S, <<>>, FALSE)
  ELSE IF InList(Append(dir, dirs[dir][i]), S.imp) THEN ImportDirFrom(S, dir, i + 1)
  ELSE Bind(ImportDirEntry(RecordImported(S, Append(dir, dirs[dir][i])),
                           Append(dir, dirs[dir][i])), LAMBDA sub :
         IF sub.raised THEN sub
         ELSE Bind(ImportDirFrom(sub.S, dir, i + 1), LAMBDA rest :
                Parsed(rest.S, sub.items \o rest.items, rest.raised)))

ImportDir(S, dir) == ImportDirFrom(S, dir, 1)

\* the body of the loop of Import.parse for the candidate path `full`
ImportCandidate(S, full) ==
  IF InList(full, S.imp) THEN Parsed(S, <<>>, FALSE)
  ELSE IF full \in DOMAIN dirs THEN ImportDir(RecordImported(S, full), full)
  ELSE CallParser(RecordImported(S, full), full)

RECURSIVE ImportParseFrom(_, _, _)
\* Import.parse, from the i-th entry of import_paths
ImportParseFrom(S, lib, i) ==
  IF i > Len(ImportPaths)
  THEN Parsed(Fail(S, "Error", "no such file or directory", ""), <<>>, FALSE)
  ELSE IF (ImportPaths[i] \o lib) \in DOMAIN dirs
       THEN ImportCandidate(S, ImportPaths[i] \o lib)
       ELSE IF EhExt(ImportPaths[i] \o lib) \in DOMAIN files
            THEN ImportCandidate(S, EhExt(ImportPaths[i] \o lib))
            ELSE ImportParseFrom(S, lib, i + 1)

ImportParse(S, lib) == ImportParseFrom(S, lib, 1)

\* Include.parse
IncludeParse(S, lib) ==
  IF InList(lib, S.inc) THEN Parsed(S, <<>>, FALSE)
  ELSE CallParser(RecordIncluded(S, lib), lib)

\* ---------------------------------------------------------------- symbols

\* the answer of a lookup issued by a symbol: the declaration, or a recorded failure
Resolved(S, r, sym) ==
  IF r.res # 0 THEN [S |-> [S EXCEPT !.ns = r.ns], res |-> r.res]
  ELSE [S |-> Fail([S EXCEPT !.ns = r.ns], "Error",
                   IF r.err # NoErr THEN r.err.msg ELSE "use of undeclared identifier",
                   IF r.err # NoErr THEN r.err.sym ELSE sym),
        res |-> 0]

\* CompoundIdentifier.find_children_declarations for a one-element identifier `sym`
\* used beneath node `id`: the lookup starts at the identifier's parent
Lookup(S, id, sym) == Resolved(S, FindDeclaration(S.ns, id, sym), sym)

RECURSIVE StructBuild(_, _, _)
\* Identifier.build of an element whose declaration is `d`: it reads its own type, and
\* the type of an identifier that names a structure is that structure, built beneath the
\* identifier
ElemBuild(S, id, d) ==
  IF d # 0 /\ S.ns[d].k = "struct" THEN StructBuild(S, d, id) ELSE S

RECURSIVE BuildElems(_, _, _, _)
\* self.elems = [e.build(self) for e in self.elems]
BuildElems(S, id, decls, i) ==
  IF i > Len(decls) THEN S
  ELSE BuildElems(ElemBuild(S, id, decls[i]), id, decls, i + 1)

\* CompoundIdentifier.build of a one-element identifier `sym` used beneath node `id`
Resolve(S, id, sym) ==
  Bind(Lookup(S, id, sym), LAMBDA r : [S |-> ElemBuild(r.S, id, r.res), res |-> r.res])

\* Declaration.typ of a declaration that is not built yet: the names of its type symbol
\* are not resolved, and an array symbol asserts on its unresolved child
UnbuiltTyp(t) ==
  IF IsContainer(t) /\ \A i \in 1..Len(t.pre) : t.pre[i] = "arr" THEN NoType
  ELSE [t EXCEPT !.base = "@any"]

\* the names every file can use without declaring them
BuiltinNames == {"@int", "@bool", "@str", "@any", "@void", "@func"}

\* Declaration.typ
DeclarationTyp(ns, d) ==
  CASE ns[d].k \in {"fdecl", "fdef"} -> FuncType
    [] ns[d].built /\ (ns[d].typ.base \in BuiltinNames \/ ns[d].tdecl # 0) -> ns[d].typ
    [] OTHER -> UnbuiltTyp(ns[d].typ)

\* ContainerStructure.get_inner_declaration: the fields in order, or the error of a
\* structure that has no field list
StructInner(ns, d, sym) ==
  IF ns[d].incomplete
  THEN [res |-> 0, err |-> [msg |-> "accessing incomplete struct", sym |-> ns[d].name]]
  ELSE ScanGet(ns, ns[d].params, 1, sym)

\* get_inner_declaration of declaration `d`: a structure looks in its fields; a variable
\* asks its type, where a reference asks its child and a structure its fields; every
\* other declaration and type has the default answer of DeclarationBase
GetInnerDeclaration(ns, d, sym) ==
  CASE ns[d].k = "struct" -> StructInner(ns, d, sym)
    [] ns[d].k \in {"var", "param"} /\ ns[d].built /\ ns[d].tdecl # 0
       /\ (\A i \in 1..Len(ns[d].typ.pre) : ns[d].typ.pre[i] = "ref")
         -> StructInner(ns, ns[d].tdecl, sym)
    [] OTHER -> Nothing

\* the elements the loop of find_children_declarations does not reach
Unreached(n) == [j \in 1..n |-> 0]

\* the loop of CompoundIdentifier.find_children_declarations from element `i` on, `prev`
\* being the declaration of element i - 1; Declaration.get_inner_declaration reads the type
\* of `prev`, which asserts for an array variable that is not built yet
RECURSIVE InnerResolve(_, _, _, _)
InnerResolve(S, prev, elems, i) ==
  IF i > Len(elems) THEN [S |-> S, decls |-> <<>>]
  ELSE IF S.ns[prev].k \in {"var", "param"} /\ DeclarationTyp(S.ns, prev) = NoType
  THEN [S |-> [S EXCEPT !.abort = "AssertionError"], decls |-> Unreached(Len(elems) - i + 1)]
  ELSE Bind(Resolved(S, Found(GetInnerDeclaration(S.ns, prev, elems[i]), S.ns), elems[i]),
            LAMBDA r :
         IF r.res = 0 THEN [S |-> r.S, decls |-> Unreached(Len(elems) - i + 1)]
         ELSE Bind(InnerResolve(r.S, r.res, elems, i + 1), LAMBDA rest :
                [S |-> rest.S, decls |-> <<r.res>> \o rest.decls]))

\* CompoundIdentifier.find_children_declarations for the identifier elems[1] . elems[2] ...
\* used beneath node `id`: the declaration of every element, 0 for none
FindChildrenDeclarations(S, id, elems) ==
  Bind(Lookup(S, id, elems[1]), LAMBDA r :
    IF r.res = 0 THEN [S |-> r.S, decls |-> Unreached(Len(elems))]
    ELSE Bind(InnerResolve(r.S, r.res, elems, 2), LAMBDA rest :
           [S |-> rest.S, decls |-> <<r.res>> \o rest.decls]))

\* ---------------------------------------------------------------- statements

\* parser output of the function-body grammar
StmtItem(k, use, nargs, body) == [k |-> k, use |-> use, nargs |-> nargs, body |-> body]

\* actuals of a call: the i-th user-written expression, the default value of parameter i,
\* a synthesised Number and a synthesised identifier
Lit(i) == [t |-> "lit", v |-> i, id |-> NoName]
Default(i) == [t |-> "default", v |-> i, id |-> NoName]
Num(n) == [t |-> "num", v |-> n, id |-> NoName]
Ident(g) == [t |-> "id", v |-> 0, id |-> g]
Actuals(n) == [i \in 1..n |-> Lit(i)]

NewStmt(s, k, use, args) ==
  [sid |-> s, k |-> k, use |-> use, args |-> args, res |-> 0, nbuilt |-> 0,
   scope |-> 0, decl |-> 0, len |-> 0, init |-> <<>>, src |-> args, by |-> 0]

\* a state together with the statement a build returned
Built(S, st) == [S |-> S, st |-> st]

RECURSIVE MakeBody(_, _)
\* the objects of a control structure: its body, its condition and the flow scope node
MakeIf(S, it, s) ==
  Bind(MakeBody([S EXCEPT !.sid = s + 1], it.body), LAMBDA inner :
    Built([inner.S EXCEPT !.ns = Append(@, [NewNode("cs", NoName) EXCEPT
             !.body = inner.body,
             !.cond = <<NewStmt(s + 1, IF it.use = NoName THEN "lit" ELSE "call",
                                it.use, Actuals(it.nargs))>>])],
          [NewStmt(s, "if", NoName, <<>>) EXCEPT !.scope = Len(inner.S.ns) + 1]))

\* the objects of a local variable declaration
MakeDecl(S, it, s) ==
  Built([S EXCEPT !.sid = s, !.ns = Append(@, NewNode("var", it.use))],
        [NewStmt(s, "decl", it.use, <<>>) EXCEPT !.decl = Len(S.ns) + 1])

MakeStmt(S, it, s) ==
  CASE it.k = "if" -> MakeIf(S, it, s)
    [] it.k = "decl" -> MakeDecl(S, it, s)
    [] OTHER -> Built([S EXCEPT !.sid = s], NewStmt(s, it.k, it.use, Actuals(it.nargs)))

\* the statement objects function.parse creates for a body; a control structure is a
\* flow scope of the store, a local declaration a declaration of the store
MakeBody(S, items) ==
  IF items = <<>> THEN [S |-> S, body |-> <<>>]
  ELSE Bind(MakeStmt(S, Head(items), S.sid + 1), LAMBDA here :
       Bind(MakeBody(here.S, Tail(items)), LAMBDA rest :
         [S |-> rest.S, body |-> <<here.st>> \o rest.body]))

\* list.index(before): the first position holding that statement object, 0 when absent
IndexOfSid(body, s) ==
  IF \E i \in 1..Len(body) : body[i].sid = s
  THEN CHOOSE i \in 1..Len(body) : body[i].sid = s /\ \A j \in 1..(i - 1) : body[j].sid # s
  ELSE 0

\* list.insert(i - 1, x) for the 1-based position i
InsertAt(seq, i, x) == (SubSeq(seq, 1, i - 1) \o <<x>>) \o SubSeq(seq, i, Len(seq))

RECURSIVE GenerateVarName(_, _)
\* node.generate_var_name(), propagated upwards
GenerateVarName(ns, from) ==
  CASE ns[from].k = "fdef" ->
         [ns |-> [ns EXCEPT ![from].gen_var_count = @ + 1],
          name |-> "__gen_fun_" \o ToString(ns[from].gen_var_count + 1)]
    [] ns[from].k = "ast" ->
         [ns |-> [ns EXCEPT ![from].gen_var_count = @ + 1],
          name |-> "__gen_ast_" \o ToString(ns[from].gen_var_count + 1)]
    [] OTHER -> GenerateVarName(ns, ns[from].parent)

\* the Statement(VariableDeclaration(Array(...), name, InitializationList(init))) that
\* _auto_cast_args creates, after its build beneath flow scope f
GenStmt(S, name, init, by) ==
  [NewStmt(S.sid + 1, "gen", name, <<>>) EXCEPT
     !.decl = Len(S.ns) + 1, !.len = Len(init), !.init = init, !.nbuilt = 1, !.by = by]

\* self.body.insert(self.body.index(before), do.build(self)); self._counter += 1
InsertBuilt(S, f, name, init, idx, by) ==
  [S EXCEPT !.sid = @ + 1,
            !.ns = [Declare(NodeBuild(Append(S.ns, NewNode("var", name)), Len(S.ns) + 1, f),
                            f, Len(S.ns) + 1)
                    EXCEPT ![f].body = InsertAt(@, idx, GenStmt(S, name, init, by)),
                           ![f].counter = @ + 1]]

\* FlowScope.do_before(do, before): `do` is the Statement that declares the array `name`
\* initialised with `init`; `before` is the node through which the request arrived
DoBefore(S, f, name, init, beforeSid, beforeIsStatement) ==
  IF ~ beforeIsStatement THEN [S EXCEPT !.abort = "AssertionError"]
  ELSE IF IndexOfSid(S.ns[f].body, beforeSid) = 0 THEN [S EXCEPT !.abort = "ValueError"]
  ELSE InsertBuilt(S, f, name, init, IndexOfSid(S.ns[f].body, beforeSid), beforeSid)

\* ---------------------------------------------------------------- calls

\* a _check_args that leaves the actuals as they were written
NoDefaults(ns, ps, args, i) == args

RECURSIVE FillDefaults(_, _, _, _)
\* the loop of FunctionCall._check_args
FillDefaults(ns, ps, args, i) ==
  IF i > Len(ps) THEN args
  ELSE IF i > Len(args)
       THEN IF ns[ps[i]].def THEN FillDefaults(ns, ps, Append(args, Default(i)), i + 1)
            ELSE args
       ELSE FillDefaults(ns, ps, args, i + 1)

\* the warning at the end of FunctionCall._check_args
ArityWarning(S, c, fn) ==
  IF Len(c.args) < Len(S.ns[fn].params)
  THEN Fail(S, "Warning", "not enough arguments", c.use)
  ELSE IF Len(c.args) > Len(S.ns[fn].params) /\ ~ S.ns[fn].variadic
       THEN Fail(S, "Warning", "too many arguments", c.use)
       ELSE S

\* FunctionCall._check_args
CheckArgs(S, c, fn) ==
  Bind([c EXCEPT !.args = FillDefaults(S.ns, S.ns[fn].params, c.args, 1)], LAMBDA c1 :
    Built(ArityWarning(S, c1, fn), c1))

Min(a, b) == IF a < b THEN a ELSE b

\* a snapshot of the tail that misses its last actual
TailButLast(args, i) == SubSeq(args, i + 1, Len(args) - 1)

\* vargs = self.args[i:]
TailFrom(args, i) == SubSeq(args, i + 1, Len(args))

\* the actuals after the lowering: args[:i], Number(len(vargs)), Identifier(vargs_name)
Lowered(args, i, name) ==
  SubSeq(args, 1, i) \o <<Num(Len(TailFrom(args, i))), Ident(name)>>

\* the variadic branch of FunctionCall._auto_cast_args, i actuals being fixed
LowerCall(S, f, c, i, beforeSid, beforeIsStatement) ==
  Bind(GenerateVarName(S.ns, f), LAMBDA g :
  Bind(DoBefore([S EXCEPT !.ns = g.ns], f, g.name, TailFrom(c.args, i),
                beforeSid, beforeIsStatement), LAMBDA S1 :
    Built(S1, [c EXCEPT !.args = IF S1.abort # "" THEN SubSeq(c.args, 1, i)
                                 ELSE Lowered(c.args, i, g.name)])))

\* the test of FunctionCall._auto_cast_args: `d` is sym.decl, `fn` the canonical declaration
IsNativeVariadic(ns, d, fn) == ns[fn].variadic /\ ns[d].dtype = "EHLIT"

\* FunctionCall._auto_cast_args
AutoCastArgs(S, f, c, d, fn, beforeSid, beforeIsStatement) ==
  IF IsNativeVariadic(S.ns, d, fn)
  THEN LowerCall(S, f, c, Min(Len(c.args), Len(S.ns[fn].params)), beforeSid,
                 beforeIsStatement)
  ELSE Built(S, c)

\* Cast.build
CastBuild(S, c) ==
  Built(IF Len(c.args) < 1 THEN Fail(S, "Error", "cast requires a value", c.use)
        ELSE IF Len(c.args) > 1
             THEN Fail(S, "Error", "too many values for cast expression", c.use)
             ELSE S,
        [c EXCEPT !.k = "cast"])

\* FunctionCall.build once self.sym is built: `fn` is self.sym.canonical
CallResolved(S, f, c, fn, beforeSid, beforeIsStatement) ==
  IF c.res = 0 THEN Built(S, c)
  ELSE IF S.ns[c.res].k = "struct" THEN CastBuild(S, c)
  ELSE IF fn = 0 THEN Built(S, c)
  ELSE IF S.ns[fn].k \notin DeclarationKinds
       THEN Built([S EXCEPT !.abort = "AssertionError"], c)
  ELSE IF S.ns[fn].k \notin {"fdecl", "fdef"}
       THEN Built(Fail(S, "Error", "calling non function type", c.use), c)
  ELSE Bind(CheckArgs(S, c, fn), LAMBDA chk :
         AutoCastArgs(chk.S, f, chk.st, c.res, fn, beforeSid, beforeIsStatement))

\* FunctionCall.build of call `c` located in flow scope `f`
CallBuild(S, f, c, beforeSid, beforeIsStatement) ==
  Bind(Resolve(S, f, c.use), LAMBDA r :
    CallResolved(r.S, f, [c EXCEPT !.res = r.res, !.nbuilt = @ + 1],
                 Canonical(r.S.ns, r.res), beforeSid, beforeIsStatement))

\* ---------------------------------------------------------------- building declarations

\* self.typ_src.build(self) and self._make_type() of declaration id: a type name that is
\* not builtin is looked up from the declaration; it has to stand for a type, and an array
\* of an undeclared name asserts in Array.solve
TypeBuild(S, id) ==
  IF S.ns[id].typ.base \in BuiltinNames THEN S
  ELSE Bind(Resolve(S, id, S.ns[id].typ.base), LAMBDA r :
         Bind(Canonical(r.S.ns, r.res), LAMBDA c :
           IF c = 0
           THEN IF UnbuiltTyp(S.ns[id].typ) = NoType
                THEN [r.S EXCEPT !.abort = "AssertionError"] ELSE r.S
           ELSE IF r.S.ns[c].k = "struct" THEN [r.S EXCEPT !.ns[id].tdecl = c]
           ELSE [r.S EXCEPT !.abort = "AssertionError"]))

\* Declaration.build up to and including self._make_type()
DeclarationBuild(S, id, parent) ==
  TypeBuild([S EXCEPT !.ns = Declare(NodeBuild(S.ns, id, parent), parent, id)], id)

\* Identifier.typ, `d` being the declaration the identifier resolved to (Alias.typ for an
\* alias)
IdentifierTyp(ns, d) ==
  CASE d = 0 -> AnyType
    [] ns[d].k = "struct" -> BuiltinType(ns[d].name)
    [] ns[d].k = "alias" ->
         IF ns[d].src = 0 THEN AnyType
         ELSE IF ns[ns[d].src].k = "struct" THEN BuiltinType(ns[ns[d].src].name)
         ELSE DeclarationTyp(ns, ns[d].src)
    [] OTHER -> DeclarationTyp(ns, d)

\* FunctionCall.typ, `d` being sym.decl
CallTyp(ns, d) ==
  CASE d = 0 -> AnyType
    [] ns[d].k \notin DeclarationKinds -> NoType
    [] ns[d].k \in {"fdecl", "fdef"} ->
         IF ns[d].built THEN ns[d].typ ELSE [ns[d].typ EXCEPT !.base = "@any"]
    [] OTHER -> DeclarationTyp(ns, d)

\* self.typ of the initialiser of declaration id
InitialiserTyp(ns, id) ==
  IF ns[id].vkind = "call" THEN CallTyp(ns, ns[id].res) ELSE IdentifierTyp(ns, ns[id].res)

\* the elements of the compound identifier that initialises declaration id
Elems(n) == <<n.use>> \o n.path

\* self.assign.expr.auto_cast(self.typ)
Coerce(S, id) ==
  Bind(InitialiserTyp(S.ns, id), LAMBDA vtyp :
    IF S.abort # "" THEN S
    ELSE IF vtyp = NoType THEN [S EXCEPT !.abort = "AssertionError"]
    ELSE Bind(AutoCast(vtyp, S.ns[id].typ), LAMBDA c :
           [S EXCEPT !.ns[id].cast = c.cast, !.ns[id].ref_offset = c.ref_offset]))

\* self.assign.build(self) for an initialiser that is an identifier, or a call without
\* actuals
InitialiserBuild(S, id) ==
  Bind(FindChildrenDeclarations(S, id, Elems(S.ns[id])), LAMBDA f :
    Bind(f.decls[Len(f.decls)], LAMBDA res :
      Bind(IF f.S.abort # "" THEN f.S ELSE BuildElems(f.S, id, f.decls, 1), LAMBDA S1 :
        IF S.ns[id].vkind = "call"
        THEN Bind(CallResolved(S1, id, [NewStmt(0, "call", S.ns[id].use, <<>>) EXCEPT
                                          !.res = res],
                               Canonical(S1.ns, res), 0, FALSE), LAMBDA b :
               [b.S EXCEPT !.ns[id].res = res, !.ns[id].decls = f.decls])
        ELSE [S1 EXCEPT !.ns[id].res = res, !.ns[id].decls = f.decls])))

\* the initialiser of a variable declaration, when it has one: it is built, then coerced
\* to the declared type; the null literal and a number literal resolve nothing, and
\* Number.auto_cast does nothing
AssignBuild(S, id) ==
  IF S.ns[id].vkind \in {"null", "num"} \/ S.ns[id].use = NoName THEN S
  ELSE Coerce(InitialiserBuild(S, id), id)

\* VariableDeclaration.build
VariableBuild(S, id, parent) == AssignBuild(DeclarationBuild(S, id, parent), id)

RECURSIVE BuildParams(_, _, _)
\* FunctionType.build: every parameter is built beneath the function's type
BuildParams(S, id, i) ==
  IF i > Len(S.ns[id].params) THEN S
  ELSE BuildParams(VariableBuild(S, S.ns[id].params[i], id), id, i + 1)

\* Declaration.build of a function declaration or definition
FunctionDeclarationBuild(S, id, parent) ==
  BuildParams(DeclarationBuild(S, id, parent), id, 1)

\* ContainerStructure.build
StructBuild(S, id, parent) ==
  IF S.ns[id].built THEN S
  ELSE Bind([S EXCEPT !.ns = Declare(NodeBuild(S.ns, id, parent), parent, id)], LAMBDA S1 :
         IF S1.ns[id].incomplete THEN S1 ELSE BuildParams(S1, id, 1))

\* Alias.build
AliasBuild(S, id, parent) ==
  Bind(Resolve([S EXCEPT !.ns = Declare([S.ns EXCEPT ![id].parent = parent], parent, id)],
               id, S.ns[id].use), LAMBDA r :
    [r.S EXCEPT !.ns = NodeBuild([r.S.ns EXCEPT ![id].res = r.res,
                                                ![id].src = Canonical(r.S.ns, r.res)],
                                 id, parent)])

\* the build of what source.parse / c_header.parse handed back to an inclusion node
AfterParse(p) == IF p.raised THEN Fail(p.S, "Fatal", "parse error", "") ELSE p.S

RECURSIVE BuildNode(_, _, _), BuildSyms(_, _, _, _)
\* GenericExternInclusion.build after super().build(parent): parse, then build the nodes
ExternBuild(S, id, p) ==
  Bind(AfterParse(p), LAMBDA S2 :
  Bind(AllocAll(S2.ns, p.items), LAMBDA a :
    BuildSyms([S2 EXCEPT !.ns = a.ns], id, a.ids, 1)))

\* node.build(parent) for a top-level node of a module
BuildNode(S, id, parent) ==
  CASE S.ns[id].k \in {"var", "param"} -> VariableBuild(S, id, parent)
    [] S.ns[id].k \in {"fdecl", "fdef"} -> FunctionDeclarationBuild(S, id, parent)
    [] S.ns[id].k = "struct" -> StructBuild(S, id, parent)
    [] S.ns[id].k = "alias" -> AliasBuild(S, id, parent)
    [] S.ns[id].k = "import" ->
         ExternBuild(S, id, ImportParse([S EXCEPT !.ns = NodeBuild(S.ns, id, parent)],
                                        S.ns[id].lib))
    [] S.ns[id].k = "include" ->
         ExternBuild(S, id, IncludeParse([S EXCEPT !.ns = NodeBuild(S.ns, id, parent)],
                                         S.ns[id].lib))

\* GenericExternInclusion.build: for s in parsed: self.syms.append(s.build(self))
BuildSyms(S, id, ids, i) ==
  IF i > Len(ids) THEN S
  ELSE Bind(BuildNode(S, ids[i], id), LAMBDA S1 :
         BuildSyms([S1 EXCEPT !.ns[id].syms = Append(@, ids[i])], id, ids, i + 1))

\* ---------------------------------------------------------------- flow scopes

RECURSIVE StmtBuild(_, _, _), FlowStep(_, _), FlowLoop(_, _), ControlBuild(_, _, _)
\* a statement that is an identifier expression
UseBuild(S, f, st) ==
  Bind(Resolve(S, f, st.use), LAMBDA r :
    Built(r.S, [st EXCEPT !.res = r.res, !.nbuilt = @ + 1]))

\* Statement.build of statement `st` of flow scope `f`
StmtBuild(S, f, st) ==
  CASE st.k = "use" -> UseBuild(S, f, st)
    [] st.k \in {"decl", "gen"} ->
         Built(VariableBuild(S, st.decl, f), [st EXCEPT !.nbuilt = @ + 1])
    [] st.k = "call" -> CallBuild(S, f, st, st.sid, TRUE)
    [] st.k = "if" -> Built(ControlBuild(S, st.scope, f), [st EXCEPT !.nbuilt = @ + 1])
    [] OTHER -> Built(S, [st EXCEPT !.nbuilt = @ + 1])

\* self.body[self._counter] = <the built statement>; self._counter += 1
Rebind(S, f, st) ==
  IF S.abort # "" THEN S
  ELSE IF S.ns[f].counter + 1 > Len(S.ns[f].body) THEN [S EXCEPT !.abort = "IndexError"]
  ELSE [S EXCEPT !.ns[f].body[S.ns[f].counter + 1] = st, !.ns[f].counter = @ + 1]

\* one turn of the loop of FlowScope.build:
\*   self.body[self._counter] = self.body[self._counter].build(self); self._counter += 1
FlowStep(S, f) ==
  Bind(StmtBuild(S, f, S.ns[f].body[S.ns[f].counter + 1]), LAMBDA r : Rebind(r.S, f, r.st))

\* while self._counter < len(self.body)
FlowLoop(S, f) ==
  IF S.abort # "" \/ S.ns[f].counter >= Len(S.ns[f].body) THEN S
  ELSE FlowLoop(FlowStep(S, f), f)

\* the condition of a control structure, built beneath the control structure
CondBuild(S, cs) ==
  IF S.abort # "" THEN S
  ELSE Bind(IF S.ns[cs].cond[1].k = "call"
            THEN CallBuild(S, cs, S.ns[cs].cond[1], S.ns[cs].cond[1].sid, FALSE)
            ELSE Built(S, [S.ns[cs].cond[1] EXCEPT !.nbuilt = @ + 1]), LAMBDA r :
         IF r.S.abort # "" THEN r.S ELSE [r.S EXCEPT !.ns[cs].cond = <<r.st>>])

\* ControlStructure.build: the body as a flow scope, then the condition
ControlBuild(S, cs, parent) ==
  CondBuild(FlowLoop([S EXCEPT !.ns = [NodeBuild(S.ns, cs, parent) EXCEPT
                                         ![cs].counter = 0]], cs), cs)

\* the have_return_value flag handed to function.parse: not typ == BuiltinType('@void'),
\* typ being the canonical declaration of the return type `t`
HaveReturnValue(t) == t # BuiltinType("@void")

\* the declarations of the local-declaration statements of a parsed body, in order
LocalsOf(body) ==
  Bind(SelectSeq(body, LAMBDA st : st.k = "decl"), LAMBDA ds : [j \in 1..Len(ds) |-> ds[j].decl])

\* a function definition that registers the locals of its body as soon as it is parsed
EnterHoisted(S, id, parent) ==
  Bind(MakeBody(S, S.ns[id].srcbody), LAMBDA b :
    [b.S EXCEPT !.ns = [NodeBuild(b.S.ns, id, parent) EXCEPT
                          ![id].body = b.body, ![id].counter = 0,
                          ![id].parses = @ + 1,
                          ![id].have_return = HaveReturnValue(S.ns[id].typ),
                          ![id].declarations = @ \o LocalsOf(b.body)]])

\* FunctionDefinition.build after the first Declaration.build: the body is parsed and the
\* second build starts with FlowScope.build
EnterBody(S, id, parent) ==
  Bind(MakeBody(S, S.ns[id].srcbody), LAMBDA b :
    [b.S EXCEPT !.ns = [NodeBuild(b.S.ns, id, parent) EXCEPT
                          ![id].body = b.body, ![id].counter = 0,
                          ![id].parses = @ + 1,
                          ![id].have_return = HaveReturnValue(S.ns[id].typ)]])

\* the rest of the second Declaration.build, after FlowScope.build
LeaveBody(S, id, parent) ==
  IF S.abort # "" THEN S
  ELSE BuildParams([S EXCEPT !.ns = Declare(S.ns, parent, id)], id, 1)

\* FunctionDefinition.build
FunctionDefinitionBuild(S, id, parent) ==
  Bind(FunctionDeclarationBuild(S, id, parent), LAMBDA S1 :
    IF IsChildOfImport(S1.ns, id) THEN S1
    ELSE LeaveBody(FlowLoop(EnterBody(S1, id, parent), id), id, parent))

\* n.build(parent) for any top-level node
Build(S, id, parent) ==
  IF S.ns[id].k = "fdef" THEN FunctionDefinitionBuild(S, id, parent)
  ELSE BuildNode(S, id, parent)

\* ---------------------------------------------------------------- build_ast

\* a build_ast that leaves the globals bound to the lists of the previous build
KeepGlobals(S) == S

\* imported = included = []: both globals are rebound to one new list
ResetGlobals(S) == [S EXCEPT !.imp = <<>>, !.inc = <<>>, !.aliased = TRUE]

\* AST.build_ast up to the loop over the nodes
BuildAstBegin ==
  /\ pc = "init"
  /\ Install([ResetGlobals(State) EXCEPT !.ns = [NodeBuild(nodes, RootId, 0) EXCEPT
                                                  ![RootId].declarations = <<>>]])
  /\ pc' = "nodes"
  /\ UNCHANGED <<files, dirs, cur, snap>>

NextTop == nodes[RootId].syms[nodes[RootId].counter + 1]

\* the loop variable of `for n in self.nodes` moves on
Advance(S) == [S EXCEPT !.ns[RootId].counter = @ + 1]

\* one turn of `for n in self.nodes: n.build(self)` for a node that is no function
\* definition; an exception leaves build_ast
BuildTopNode ==
  /\ pc = "nodes"
  /\ nodes[RootId].counter < Len(nodes[RootId].syms)
  /\ nodes[NextTop].k # "fdef"
  /\ \E S1 \in {BuildNode(State, NextTop, RootId)} :
       /\ Install(Advance(S1))
       /\ pc' = IF S1.abort # "" THEN "aborted" ELSE "nodes"
  /\ UNCHANGED <<files, dirs, cur, snap>>

\* FunctionDefinition.build of a root node up to the loop over its parsed body: the first
\* Declaration.build, the body parser, and the start of the second FlowScope.build
FunctionEnter ==
  /\ pc = "nodes"
  /\ nodes[RootId].counter < Len(nodes[RootId].syms)
  /\ nodes[NextTop].k = "fdef"
  /\ Install(EnterBody(FunctionDeclarationBuild(State, NextTop, RootId), NextTop, RootId))
  /\ pc' = "body"
  /\ cur' = NextTop
  /\ UNCHANGED <<files, dirs, snap>>

\* one turn of the loop of FlowScope.build over the function body; an exception leaves
\* build_ast
BuildStatement ==
  /\ pc = "body"
  /\ nodes[cur].counter < Len(nodes[cur].body)
  /\ \E S1 \in {FlowStep(State, cur)} :
       /\ Install(S1)
       /\ pc' = IF S1.abort # "" THEN "aborted" ELSE "body"
  /\ UNCHANGED <<files, dirs, cur, snap>>

\* the rest of the second Declaration.build of the function definition, after its body
FunctionExit ==
  /\ pc = "body"
  /\ nodes[cur].counter >= Len(nodes[cur].body)
  /\ Install(Advance(LeaveBody(State, cur, RootId)))
  /\ pc' = "nodes"
  /\ cur' = 0
  /\ UNCHANGED <<files, dirs, snap>>

\* the end of build_ast: ParseError is raised when failures were recorded
BuildAstEnd ==
  /\ pc = "nodes"
  /\ nodes[RootId].counter >= Len(nodes[RootId].syms)
  /\ pc' = IF failures # <<>> THEN "raised" ELSE "done"
  /\ UNCHANGED <<files, dirs, nodes, failures, imported, included, aliased, parsed, cur,
                 abort, sid, snap>>

\* what a second build may not change: the declarations and predeclarations of every
\* scope, every flow-scope body, every resolved reference and the recorded failures
Observable(ns, fs) ==
  [scopes |-> [i \in 1..Len(ns) |-> <<ns[i].declarations, ns[i].predeclarations,
                                      ns[i].body, ns[i].res>>],
   failures |-> fs]

\* a caller builds the already built top-level node n once more: n.build(n.parent)
Rebuild ==
  /\ pc = "done"
  /\ \E i \in 1..Len(nodes[RootId].syms) :
       Install(Build(State, nodes[RootId].syms[i], RootId))
  /\ snap' = Observable(nodes, failures)
  /\ pc' = "rebuilt"
  /\ UNCHANGED <<files, dirs, cur>>

\* ---------------------------------------------------------------- programs

Var(n, priv, use) == Item("var", n, priv, use, <<>>, NoParams, FALSE, <<>>)
Struct(n) == Item("struct", n, FALSE, NoName, <<>>, NoParams, FALSE, <<>>)
Alias(n, use) == Item("alias", n, FALSE, use, <<>>, NoParams, FALSE, <<>>)
Import(lib) == Item("import", NoName, FALSE, NoName, lib, NoParams, FALSE, <<>>)
Include(lib) == Item("include", NoName, FALSE, NoName, lib, NoParams, FALSE, <<>>)
FunDecl(n, priv, params, variadic) ==
  Item("fdecl", n, priv, NoName, <<>>, params, variadic, <<>>)
FunDef(n, priv, params, variadic, body) ==
  Item("fdef", n, priv, NoName, <<>>, params, variadic, body)

\* the state after the parser built AST(nodes): the root and its unbuilt nodes
InitWith(rootItems, fileMap, dirMap) ==
  LET a == AllocAll(<<NewNode("ast", NoName)>>, rootItems)
  IN /\ files = fileMap
     /\ dirs = dirMap
     /\ nodes = [a.ns EXCEPT ![RootId].syms = a.ids]
     /\ failures = <<>>
     /\ imported = <<>>
     /\ included = <<>>
     /\ aliased = FALSE
     /\ parsed = <<>>
     /\ pc = "init"
     /\ cur = 0
     /\ abort = ""
     /\ sid = 0
     /\ snap = <<>>

\* --- scope runs: a root module and the module a it may import

OneParam == <<Param("p", FALSE)>>
ScopeItems ==
  UNION {
    {Var(n, priv, u) : priv \in BOOLEAN, u \in {NoName, Other(n)}}
    \cup {FunDef(n, FALSE, OneParam, FALSE, b) :
            b \in {<<>>, <<StmtItem("use", Other(n), 0, <<>>)>>}}
    \cup {FunDecl(n, FALSE, OneParam, FALSE), Struct(n), Alias(n, Other(n))}
    : n \in Names} \cup {Import(<<"a">>)}

HasImport(items) == \E i \in 1..Len(items) : items[i].k = "import"

ScopeDirs == (<<"src">> :> <<"a.eh">>)
ScopeFiles(items) == (<<"src", "a.eh">> :> [err |-> FALSE, nodes |-> items])

\* a root module of r nodes and a module a of m nodes, r + m <= MaxScopeNodes; module a
\* is given nodes only when the root imports it
InitScope ==
  \E r \in 1..MaxScopeNodes : \E m \in 0..(MaxScopeNodes - r) :
  \E rp \in [1..r -> ScopeItems] : \E ap \in [1..m -> ScopeItems] :
    /\ m = 0 \/ HasImport(rp)
    /\ InitWith(rp, ScopeFiles(ap), ScopeDirs)

NextScope ==
  \/ BuildAstBegin
  \/ BuildTopNode
  \/ FunctionEnter
  \/ BuildStatement
  \/ FunctionExit
  \/ BuildAstEnd

SpecScope == InitScope /\ [][NextScope]_vars


\* --- the use sites and declarations the scope claims speak about

\* the built top-level nodes that hold a reference by name (initialiser or alias target)
NodeUses == {u \in 1..Len(nodes) : nodes[u].built /\ nodes[u].use # NoName}
\* the built nodes that declare a name
BuiltDeclarations ==
  {d \in 1..Len(nodes) : nodes[d].built /\ nodes[d].k \in DeclarationBaseKinds}
\* the flow scopes of the store
FlowScopes == {f \in 1..Len(nodes) : nodes[f].k \in {"fdef", "cs"}}
\* the positions <<f, i>> of the statements that have been built
BuiltStatements ==
  {p \in UNION {{<<f, i>> : i \in 1..Len(nodes[f].body)} : f \in FlowScopes} :
     nodes[p[1]].body[p[2]].nbuilt > 0}
StmtAt(p) == nodes[p[1]].body[p[2]]
\* the unordered scope (root module or Import node) whose top-level node n is
TopLevelOf(n) == IF nodes[nodes[n].parent].k \in {"ast", "import"} THEN nodes[n].parent ELSE 0
PrivateOfImportedModule(d) ==
  d # 0 /\ IsPrivate(nodes, d) /\ nodes[d].built /\ IsChildOfImport(nodes, d)
Finished == pc \in {"done", "raised"}

\* C1: a declaration qualified private at the top level of an imported module is never the
\* result of a name lookup issued by the importing module from a use site outside the
\* Import node (a top-level initialiser or a statement of a function body)
C1_PrivateHiddenFromImporter ==
  /\ \A u \in NodeUses :
       ~ IsChildOfImport(nodes, u) => ~ PrivateOfImportedModule(nodes[u].res)
  /\ \A p \in BuiltStatements :
       ~ IsChildOfImport(nodes, p[1]) => ~ PrivateOfImportedModule(StmtAt(p).res)

\* C2: a use site among the top-level nodes of a module resolves the name of a private
\* declaration made earlier at the top level of the same module, when the module is the
\* root of the build and when it is built beneath an Import node
C2_PrivateVisibleInside ==
  \A u \in NodeUses : \A d \in BuiltDeclarations :
    (/\ IsPrivate(nodes, d)
     /\ d < u
     /\ TopLevelOf(u) # 0
     /\ nodes[d].parent = nodes[u].parent
     /\ nodes[d].name = nodes[u].use
     /\ \A e \in BuiltDeclarations : nodes[e].name = nodes[d].name => e = d)
    => nodes[u].res = d

\* the number of times declaration d is registered, over the declarations lists of all scopes
Registrations(d) ==
  Cardinality({p \in UNION {{<<s, i>> : i \in 1..Len(nodes[s].declarations)} :
                              s \in 1..Len(nodes)} :
                 nodes[p[1]].declarations[p[2]] = d})

\* C4: once build_ast has built every node, each declaration is registered exactly once,
\* in the declarations list of exactly one scope
C4_DeclaredExactlyOnce ==
  pc = "done" => \A d \in BuiltDeclarations : Registrations(d) = 1

\* the failures that report symbol `sym` as undeclared
Undeclared(sym) ==
  \E i \in 1..Len(failures) :
    failures[i].msg = "use of undeclared identifier" /\ failures[i].sym = sym

\* C6: in an unordered scope (the root module, or a module built beneath an Import node) a
\* top-level use of a name declared at the top level of the same scope resolves to a
\* declaration and is not reported as undeclared, whichever of the two comes first
C6_ForwardReferences ==
  Finished =>
    \A u \in NodeUses : \A d \in BuiltDeclarations :
      (/\ d # u
       /\ TopLevelOf(u) # 0
       /\ nodes[d].parent = nodes[u].parent
       /\ nodes[d].name = nodes[u].use
       /\ nodes[d].k = "alias" => nodes[d].src # 0)
      => nodes[u].res # 0 /\ ~ Undeclared(nodes[u].use)

\* --- rebuild runs: a finished build of a scope program, then one node built again

NextRebuild ==
  \/ BuildAstBegin
  \/ BuildTopNode
  \/ FunctionEnter
  \/ BuildStatement
  \/ FunctionExit
  \/ BuildAstEnd
  \/ Rebuild

SpecRebuild == InitScope /\ [][NextRebuild]_vars

\* C5: building an already built node a second time with the same parent leaves the
\* declarations and predeclarations of every scope, every flow-scope body, every resolved
\* reference and the recorded failures as they were after the first build
C5_RebuildIsIdempotent ==
  pc = "rebuilt" => Observable(SubSeq(nodes, 1, Len(snap.scopes)), failures) = snap

\* --- resolver runs: a root module of Import / Include nodes over a small file system
\*     src/a.eh, src/b.eh, src/d/m.eh, src/d/sub/n.eh and the header h

ImportLibs == {<<"a">>, <<"b">>, <<"d">>, <<"d", "sub">>, <<"d", "m">>, <<"zz">>}
IncludeLibs == {<<"h">>, <<"src", "a.eh">>}
Imports == {Import(l) : l \in ImportLibs}
FsItems == Imports \cup {Include(l) : l \in IncludeLibs}

FsDirs == (<<"src", "d">> :> <<"m.eh", "sub">>)
          @@ (<<"src", "d", "sub">> :> <<"n.eh">>)

\* the parsers' answers: a.eh holds at most one inclusion node or does not parse, m.eh may
\* import a, b.eh imports a and d, n.eh and h declare a name
FsFiles(a, aerr, m) ==
  (<<"src", "a.eh">> :> [err |-> aerr, nodes |-> a])
  @@ (<<"src", "b.eh">> :> [err |-> FALSE, nodes |-> <<Import(<<"a">>), Import(<<"d">>)>>])
  @@ (<<"src", "d", "m.eh">> :> [err |-> FALSE, nodes |-> m])
  @@ (<<"src", "d", "sub", "n.eh">> :> [err |-> FALSE, nodes |-> <<Var("x", FALSE, NoName)>>])
  @@ (<<"h">> :> [err |-> FALSE, nodes |-> <<Var("y", FALSE, NoName)>>])

\* a root module of 1..MaxFsNodes inclusion nodes
InitImport ==
  \E n \in 1..MaxFsNodes : \E r \in [1..n -> FsItems] :
  \E a \in {<<>>} \cup {<<i>> : i \in Imports \cup {Include(<<"h">>)}} :
  \E aerr \in BOOLEAN :
  \E m \in {<<>>, <<Import(<<"a">>)>>} :
    InitWith(r, FsFiles(a, aerr, m), FsDirs)

NextImport ==
  \/ BuildAstBegin
  \/ BuildTopNode
  \/ BuildAstEnd

SpecImport == InitImport /\ [][NextImport]_vars

\* the built Import and Include nodes
Inclusions == {n \in 1..Len(nodes) : nodes[n].built /\ nodes[n].k \in ExternKinds}

\* C3: within one build_ast run the parser collaborators are called at most once for each
\* external file path, and of two Import nodes (or two Include nodes) of the same library
\* at most one contributes symbols
C3_ParsedAtMostOnce ==
  /\ \A i \in 1..Len(parsed) : \A j \in 1..Len(parsed) : i # j => parsed[i] # parsed[j]
  /\ \A n1 \in Inclusions : \A n2 \in Inclusions :
       (n1 # n2 /\ nodes[n1].k = nodes[n2].k /\ nodes[n1].lib = nodes[n2].lib)
       => (nodes[n1].syms = <<>> \/ nodes[n2].syms = <<>>)

\* a finished build in which a file was requested by two nodes and parsed for the first
C3_RepeatedRequest ==
  /\ Finished
  /\ \E n1 \in Inclusions : \E n2 \in Inclusions :
       /\ n1 # n2
       /\ nodes[n1].k = nodes[n2].k
       /\ nodes[n1].lib = nodes[n2].lib
       /\ nodes[n1].syms # <<>>
       /\ nodes[n2].syms = <<>>
  /\ Len(parsed) >= 1

\* --- call runs: a callee x (native, declared by the header h, or a type), an optional alias y
\*     of it, and a function definition whose body calls them

\* m parameters, the last d of them with a default value
Params(m, d) == [i \in 1..m |-> Param("p" \o ToString(i), i > m - d)]

Call(c, n) == StmtItem("call", c, n, <<>>)
Literal == StmtItem("lit", NoName, 0, <<>>)
\* if (c(1..n)) { body }, the condition being a literal when c is no name
If(c, n, body) == StmtItem("if", c, n, body)

CallItems ==
  {Call(c, n) : c \in Names, n \in 0..MaxActuals}
  \cup {If("x", n, <<>>) : n \in 0..MaxActuals}
  \cup {If(NoName, 0, <<Call("x", n)>>) : n \in 0..MaxActuals}
  \cup {Literal}
FollowItems == {Literal, Call("x", MaxActuals)}

Main(body) == FunDef("main", FALSE, NoParams, FALSE, body)
WithAlias == {<<>>, <<Alias("y", "x")>>}

\* the callee x: a native declaration with m parameters, the last d of them defaulted,
\* or a variadic declaration of the header h
NativeCallee(m, d, v) == [root |-> <<FunDecl("x", FALSE, Params(m, d), v)>>, h |-> <<>>]
HeaderCallee(m) ==
  [root |-> <<Include(<<"h">>)>>, h |-> <<FunDecl("x", FALSE, Params(m, 0), TRUE)>>]

\* the callee x as the name of a type
TypeCallee == [root |-> <<Struct("x")>>, h |-> <<>>]

\* the callee, an optional alias, and main with a first statement and up to MaxBody - 1
\* statements after it
InitCall ==
  \E m \in 0..MaxParams : \E d \in 0..m : \E v \in BOOLEAN :
  \E c \in {NativeCallee(m, d, v), HeaderCallee(m), TypeCallee} :
  \E al \in WithAlias :
  \E i \in CallItems : \E n \in 0..(MaxBody - 1) : \E r \in [1..n -> FollowItems] :
    InitWith((c.root \o al) \o <<Main(<<i>> \o r)>>,
             (<<"h">> :> [err |-> FALSE, nodes |-> c.h]), <<>>)

NextCall ==
  \/ BuildAstBegin
  \/ BuildTopNode
  \/ FunctionEnter
  \/ BuildStatement
  \/ FunctionExit
  \/ BuildAstEnd

SpecCall == InitCall /\ [][NextCall]_vars

\* --- the call sites the lowering claims speak about

\* the positions of the built calls of flow-scope bodies whose symbol resolved
CallSites == {p \in BuiltStatements : StmtAt(p).k = "call" /\ StmtAt(p).res # 0}
\* the canonical declaration a call site calls
Callee(p) == Canonical(nodes, StmtAt(p).res)
IsFunction(fn) == fn # 0 /\ nodes[fn].k \in {"fdecl", "fdef"}
\* the positions, in the flow scope of call site p, of the statements inserted for it
Inserted(p) ==
  {i \in 1..Len(nodes[p[1]].body) :
     nodes[p[1]].body[i].k = "gen" /\ nodes[p[1]].body[i].by = StmtAt(p).sid}
\* the call sites of native variadic functions
NativeVariadicCalls ==
  {p \in CallSites : /\ IsFunction(Callee(p))
                     /\ nodes[Callee(p)].variadic
                     /\ nodes[Callee(p)].dtype = "EHLIT"}
\* the call sites of variadic functions declared through an Include node
CVariadicCalls ==
  {p \in CallSites : /\ IsFunction(Callee(p))
                     /\ nodes[Callee(p)].variadic
                     /\ nodes[Callee(p)].dtype = "C"}
Arity(p) == Len(nodes[Callee(p)].params)

\* C7: a built call to a native variadic function with m fixed parameters has m + 2
\* actuals, whatever the number of actuals it was written with, and its flow scope holds
\* exactly one statement inserted for it, immediately before the statement of the call
C7_LoweredArity ==
  \A p \in NativeVariadicCalls :
    /\ Len(StmtAt(p).args) = Arity(p) + 2
    /\ Inserted(p) = {p[2] - 1}

\* the call was written with, or its callee's defaults provide, every fixed actual
HasFixedActuals(p) ==
  \A j \in (Len(StmtAt(p).src) + 1)..Arity(p) : nodes[nodes[Callee(p)].params[j]].def
\* a1..am: the written actuals, then the default values of the parameters left
FixedActuals(p) ==
  [j \in 1..Arity(p) |-> IF j <= Len(StmtAt(p).src) THEN StmtAt(p).src[j] ELSE Default(j)]
\* t1..tk: the written actuals after the m-th
TailActuals(p) ==
  [j \in 1..(IF Len(StmtAt(p).src) > Arity(p) THEN Len(StmtAt(p).src) - Arity(p) ELSE 0)
     |-> StmtAt(p).src[Arity(p) + j]]
\* the names of the generated arrays, one entry per inserted statement
GeneratedAt ==
  {q \in UNION {{<<f, i>> : i \in 1..Len(nodes[f].body)} : f \in FlowScopes} :
     StmtAt(q).k = "gen"}

\* C8: for a built native variadic call with fixed actuals a1..am and tail actuals t1..tk,
\* the statement inserted right before it is built, declares an array of length k
\* initialised with t1..tk in order under a name no other inserted statement has, and the
\* actuals of the call are a1..am, the number k and that name, none of t1..tk among them
C8_InjectedArray ==
  \A p \in NativeVariadicCalls :
    HasFixedActuals(p) =>
      /\ Inserted(p) = {p[2] - 1}
      /\ \A i \in Inserted(p) :
           /\ nodes[p[1]].body[i].nbuilt = 1
           /\ nodes[p[1]].body[i].len = Len(TailActuals(p))
           /\ nodes[p[1]].body[i].init = TailActuals(p)
           /\ nodes[nodes[p[1]].body[i].decl].name = nodes[p[1]].body[i].use
           /\ \A q \in GeneratedAt : q # <<p[1], i>> => StmtAt(q).use # nodes[p[1]].body[i].use
           /\ StmtAt(p).args = FixedActuals(p) \o <<Num(Len(TailActuals(p))),
                                                    Ident(nodes[p[1]].body[i].use)>>
      /\ \A j \in 1..Len(TailActuals(p)) : \A i \in 1..Len(StmtAt(p).args) :
           StmtAt(p).args[i] # TailActuals(p)[j]

\* a finished build that lowered two native variadic calls, one of them with two tail
\* actuals and a default value among its fixed actuals
C8_TwoLowerings ==
  /\ pc = "done"
  /\ \E p \in NativeVariadicCalls : \E q \in NativeVariadicCalls :
       /\ p # q
       /\ HasFixedActuals(p) /\ HasFixedActuals(q)
       /\ Len(TailActuals(p)) = 2
       /\ \E j \in 1..Arity(q) : FixedActuals(q)[j] = Default(j)

C10_CursorDiscipline ==
  /\ abort = ""
  /\ \A f \in FlowScopes : \A i \in 1..Len(nodes[f].body) :
       /\ nodes[f].body[i].nbuilt <= 1
       /\ (nodes[f].built /\ i <= nodes[f].counter) => nodes[f].body[i].nbuilt = 1
       /\ (nodes[f].built /\ i > nodes[f].counter) => nodes[f].body[i].nbuilt = 0
       /\ nodes[f].body[i].k = "gen" =>
            \E j \in (i + 1)..Len(nodes[f].body) : nodes[f].body[j].sid = nodes[f].body[i].by

\* --- failure reporting

\* the top-level nodes of the root module
TopLevel == {nodes[RootId].syms[i] : i \in 1..Len(nodes[RootId].syms)}

\* C11: no exception leaves build_ast before the last top-level node is built, so once the
\* build is over every top-level node is built; the build ends with ParseError exactly when
\* the root's failures list is not empty, and only after the loop over the nodes
C11_CollectNeverThrow ==
  /\ pc # "aborted"
  /\ pc \in {"done", "raised", "aborted"} => \A n \in TopLevel : nodes[n].built
  /\ pc = "raised" => failures # <<>> /\ nodes[RootId].counter = Len(nodes[RootId].syms)
  /\ pc \in {"done", "aborted"} => failures = <<>>

\* --- repeated builds: a resolver program built twice in one process, the source being
\*     parsed again for the second build

\* the node a parser run creates for the item that node n was created from
Unbuilt(n) ==
  [NewNode(n.k, n.name) EXCEPT !.priv = n.priv, !.use = n.use, !.lib = n.lib,
                               !.params = n.params, !.variadic = n.variadic,
                               !.def = n.def, !.srcbody = n.srcbody, !.typ = n.typ,
                               !.vkind = n.vkind, !.path = n.path,
                               !.incomplete = n.incomplete]

\* source.parse of the root file once more: the root and its top-level nodes, unbuilt
Reparse(ns) ==
  [i \in 1..ns[RootId].syms[Len(ns[RootId].syms)] |->
     IF i = RootId THEN [NewNode("ast", NoName) EXCEPT !.syms = ns[RootId].syms]
     ELSE Unbuilt(ns[i])]

\* the symbols every inclusion node of the store imported, by name and kind
ImportedSymbols(ns) ==
  [i \in {n \in 1..Len(ns) : ns[n].k \in ExternKinds} |->
     [j \in 1..Len(ns[i].syms) |-> <<ns[ns[i].syms[j]].k, ns[ns[i].syms[j]].name,
                                     ns[ns[i].syms[j]].lib>>]]

\* the set of external files a build had parsed
ParsedFiles(log) == {log[i] : i \in 1..Len(log)}

\* the first build is over; the same source is parsed again and handed to a second
\* build_ast, the process-wide lists being what the first build left
BuildAgain ==
  /\ pc \in {"done", "raised"}
  /\ snap = <<>>
  /\ snap' = [parsed |-> ParsedFiles(parsed), symbols |-> ImportedSymbols(nodes),
              imported |-> imported, included |-> included]
  /\ nodes' = Reparse(nodes)
  /\ failures' = <<>>
  /\ parsed' = <<>>
  /\ pc' = "init"
  /\ UNCHANGED <<files, dirs, imported, included, aliased, cur, abort, sid>>

NextRepeat ==
  \/ BuildAstBegin
  \/ BuildTopNode
  \/ BuildAstEnd
  \/ BuildAgain

SpecRepeat == InitImport /\ [][NextRepeat]_vars

\* C12: when build_ast starts its loop over the nodes, the imported and the included list
\* are empty, whatever the build before left in them; and a second build of the same
\* source has parsed the same set of external files and its inclusion nodes hold the same
\* symbols as after the first build
C12_GlobalsResetEachBuild ==
  /\ (pc = "nodes" /\ nodes[RootId].counter = 0) => (imported = <<>> /\ included = <<>>)
  /\ (Finished /\ snap # <<>>) =>
       /\ ParsedFiles(parsed) = snap.parsed
       /\ ImportedSymbols(nodes) = snap.symbols

\* a second build that is over, after a first build that had recorded paths in both lists
\* and had parsed files
C12_SecondBuildDone ==
  /\ Finished
  /\ snap # <<>>
  /\ snap.parsed # {}
  /\ snap.imported # <<>> /\ snap.included # <<>>
  /\ ParsedFiles(parsed) # {}

\* --- coercion runs: `xt x;  xt f();  T y = v;` where v is x, f() or null and T a builtin
\*     type under up to MaxTypeDepth reference and array layers

Builtins == {"@int", "@bool", "@str", "@any"}
Layers(n) == [1..n -> {"ref", "arr"}]
InitialiserOf(vk) == IF vk = "id" THEN "x" ELSE IF vk = "call" THEN "f" ELSE NoName

InitCast ==
  \E n \in 0..MaxTypeDepth : \E p \in Layers(n) : \E b \in Builtins :
  \E xt \in {AnyType, IntType} : \E vk \in {"id", "call", "null"} :
    InitWith(<<Typed(Var("x", FALSE, NoName), xt, "id"),
               Typed(FunDecl("f", FALSE, NoParams, FALSE), xt, "id"),
               Typed(Var("y", FALSE, InitialiserOf(vk)), [pre |-> p, base |-> b], vk)>>,
             (<<"h">> :> [err |-> FALSE, nodes |-> <<>>]), <<>>)

NextCast ==
  \/ BuildAstBegin
  \/ BuildTopNode
  \/ BuildAstEnd

SpecCast == InitCast /\ [][NextCast]_vars

\* the built variable declarations that have an initialiser
Initialised ==
  {d \in 1..Len(nodes) : /\ nodes[d].built
                         /\ nodes[d].k = "var"
                         /\ (nodes[d].use # NoName \/ nodes[d].vkind = "null")}
\* the initialiser of d is a value of type @any
InitialiserIsAny(d) == nodes[d].vkind = "null" \/ InitialiserTyp(nodes, d) = AnyType

\* C13: after the auto_cast of an initialiser of type @any (an identifier, a call or the
\* null literal) to the declared type T, the value carries a cast, and the type of that
\* cast equals T once the outer reference layers of both are removed
C13_AnyIsCastToTarget ==
  \A d \in Initialised :
    InitialiserIsAny(d) =>
      /\ nodes[d].cast # NoCast
      /\ Unreferenced(SymbolTyp(nodes[d].cast)) = Unreferenced(nodes[d].typ)

\* r reference layers over the type name b
References(r, b) == [pre |-> [i \in 1..r |-> "ref"], base |-> b]
Max(a, b) == IF a > b THEN a ELSE b

\* C14: an identifier of type @any that initialises a variable of type ref^r(B), B a
\* builtin other than @str and @any, is cast to the symbol of max(1, r) references over B
\* and is left with ref_offset max(1, r) - r
C14_CastToReference ==
  \A d \in Initialised : \A r \in 0..MaxTypeDepth :
    (/\ nodes[d].vkind = "id"
     /\ InitialiserTyp(nodes, d) = AnyType
     /\ nodes[d].typ.base \notin {"@str", "@any"}
     /\ nodes[d].typ = References(r, nodes[d].typ.base))
    => /\ nodes[d].cast = References(Max(1, r), nodes[d].typ.base)
       /\ nodes[d].ref_offset = Max(1, r) - r

\* a finished build that coerced an identifier of type @any to the declared type
C14_CoercedIdentifier ==
  /\ pc = "done"
  /\ \E d \in Initialised :
       /\ nodes[d].vkind = "id"
       /\ InitialiserTyp(nodes, d) = AnyType
       /\ nodes[d].typ = References(2, "@int")
       /\ nodes[d].cast # NoCast

\* --- calls of type names

\* the built statements that were parsed as calls, whatever their build returned
ParsedCalls == {p \in BuiltStatements : StmtAt(p).k \in {"call", "cast"}}
\* the declaration the symbol `sym` stands for beneath flow scope f, aliases followed
Denotes(f, sym) == Canonical(nodes, FindDeclaration(nodes, f, sym).res)
IsTypeDeclaration(d) == d # 0 /\ nodes[d].k = "struct"
\* the failures reported on symbol `sym` with one of the messages `msgs`
Reports(sym, msgs) ==
  Cardinality({i \in 1..Len(failures) : failures[i].sym = sym /\ failures[i].msg \in msgs})
CastErrors == {"cast requires a value", "too many values for cast expression"}
ArityWarnings == {"not enough arguments", "too many arguments"}
\* the built conditions of control structures that were parsed as calls of `sym`
ConditionCalls(sym) ==
  {f \in FlowScopes : /\ nodes[f].cond # <<>>
                       /\ nodes[f].cond[1].nbuilt > 0
                       /\ nodes[f].cond[1].k \in {"call", "cast"}
                       /\ nodes[f].cond[1].use = sym}
\* p is the only built call of its symbol
OnlyCallOfItsSymbol(p) ==
  /\ ConditionCalls(StmtAt(p).use) = {}
  /\ \A q \in ParsedCalls : StmtAt(q).use = StmtAt(p).use => q = p
\* the statement of the function body that was being built when an exception ended the build
Interrupted == nodes[cur].body[nodes[cur].counter + 1]

\* C15: the build of a call returns a Cast exactly when the symbol of the call stands for
\* a type; the cast keeps the actuals as written, inserts no statement, reports no arity
\* warning, and reports one error unless it has exactly one actual; and no build is ended
\* by an exception while it builds a call whose symbol stands for a type
C15_TypeCallBecomesCast ==
  /\ \A p \in ParsedCalls :
       /\ StmtAt(p).k = "cast" <=> IsTypeDeclaration(Denotes(p[1], StmtAt(p).use))
       /\ StmtAt(p).k = "cast" =>
            /\ StmtAt(p).args = StmtAt(p).src
            /\ Inserted(p) = {}
            /\ OnlyCallOfItsSymbol(p) =>
                 /\ Reports(StmtAt(p).use, ArityWarnings) = 0
                 /\ Reports(StmtAt(p).use, CastErrors) =
                      IF Len(StmtAt(p).src) = 1 THEN 0 ELSE 1
  /\ pc = "aborted" =>
       ~ (/\ Interrupted.k = "call"
          /\ IsTypeDeclaration(Denotes(cur, Interrupted.use)))

\* --- compound identifier runs: `struct t { int g }  struct s { ft f }  vt v  int w = path`
\*     where s may have no field list, w may stand before or after the other declarations
\*     and path has up to MaxPath elements

MaxPath == 3
PathNames == {"v", "f", "g", "s", "q"}
StructOf(n, fields) == [Struct(n) EXCEPT !.params = fields]
FieldTypes == {IntType, BuiltinType("t"), [pre |-> <<"ref">>, base |-> "t"],
               [pre |-> <<"arr">>, base |-> "t"]}
VariableTypes == {IntType, BuiltinType("s"), [pre |-> <<"ref">>, base |-> "s"],
                  [pre |-> <<"arr">>, base |-> "s"]}

InitPath ==
  \E n \in 1..MaxPath : \E p \in [1..n -> PathNames] :
  \E s \in {StructOf("s", <<Field("f", ft)>>) : ft \in FieldTypes}
           \cup {Incomplete(Struct("s"))} :
  \E vt \in VariableTypes : \E fwd \in BOOLEAN :
  \E w \in {Dotted(Var("w", FALSE, p[1]), Tail(p))} :
  \E decls \in {<<StructOf("t", <<Field("g", IntType)>>), s, Typed(Var("v", FALSE, NoName), vt, "id")>>} :
    InitWith(IF fwd THEN <<w>> \o decls ELSE decls \o <<w>>,
             (<<"h">> :> [err |-> FALSE, nodes |-> <<>>]), <<>>)

NextPath ==
  \/ BuildAstBegin
  \/ BuildTopNode
  \/ BuildAstEnd

SpecPath == InitPath /\ [][NextPath]_vars


\* the variable declarations initialised by a compound identifier
PathOwners ==
  {d \in 1..Len(nodes) : nodes[d].k = "var" /\ nodes[d].use # NoName /\ nodes[d].vkind = "id"}

\* the lookup the claim prescribes for element i of the initialiser of d, made in the store
\* the build of d starts from; `ds` are the declarations the build left in the elements
Prescribed(d, ds, i) ==
  IF i = 1 THEN FindDeclaration(nodes, nodes'[d].parent, Elems(nodes[d])[1])
  ELSE GetInnerDeclaration(nodes, ds[i - 1], Elems(nodes[d])[i])

FirstNull(ds) == CHOOSE k \in 1..Len(ds) : ds[k] = 0 /\ \A j \in 1..(k - 1) : ds[j] # 0

\* the one error the claim prescribes for a lookup answer `r` of element `name`
ReportOf(r, name) ==
  [sev |-> "Error",
   msg |-> IF r.err # NoErr THEN r.err.msg ELSE "use of undeclared identifier",
   sym |-> IF r.err # NoErr THEN r.err.sym ELSE name]

FailsAt(d, ds, k) ==
  /\ \A j \in k..Len(ds) : ds[j] = 0
  /\ failures' = Append(failures, ReportOf(Prescribed(d, ds, k), Elems(nodes[d])[k]))
  /\ InitialiserTyp(nodes', d) = AnyType

ResolvedLeftToRight(d, ds) ==
  /\ Len(ds) = Len(Elems(nodes[d]))
  /\ \A i \in 1..Len(ds) :
       (\A j \in 1..(i - 1) : ds[j] # 0) => ds[i] = Prescribed(d, ds, i).res
  /\ (\E i \in 1..Len(ds) : ds[i] = 0) => FailsAt(d, ds, FirstNull(ds))

\* C16: when a compound identifier e1.e2...en is built, e1 is looked up from the parent
\* and every later element in the previous element's declaration; at the first element
\* without a declaration exactly one error is reported (the lookup's own, or `use of
\* undeclared identifier`), that element and all later ones keep no declaration and the
\* identifier has type @any; otherwise every element has a declaration
C16_LeftToRightResolution ==
  [][\A d \in PathOwners :
       (~ nodes[d].built /\ nodes'[d].built) => ResolvedLeftToRight(d, nodes'[d].decls)]_vars


\* --- body runs: a function x, an optional import of module a that defines g, and a
\*     definition of main with a return type and up to MaxBody statements: literals, calls
\*     of x, control structures and declarations of a local named __gen_fun_1

VoidType == BuiltinType("@void")
ReturnTypes == {VoidType, IntType, AnyType, [pre |-> <<"ref">>, base |-> "@void"]}
\* a local declaration of name n
Local(n) == StmtItem("decl", n, 0, <<>>)
BodyItems ==
  {Literal, Call("x", 0), Call("x", 1), If("x", 0, <<Literal>>),
   If(NoName, 0, <<Call("x", 0)>>), Local("__gen_fun_1")}
ImportedBodies == {<<>>, <<Literal>>, <<Call("x", 0)>>}

InitBody ==
  \E v \in BOOLEAN : \E rt \in ReturnTypes :
  \E n \in 0..MaxBody : \E b \in [1..n -> BodyItems] :
  \E lib \in {<<>>} \cup {<<Typed(FunDef("g", FALSE, NoParams, FALSE, gb), gt, "id")>> :
                            gb \in ImportedBodies, gt \in {VoidType, IntType}} :
    InitWith((<<FunDecl("x", FALSE, NoParams, v)>>
                \o (IF lib = <<>> THEN <<>> ELSE <<Import(<<"a">>)>>))
                \o <<Typed(Main(b), rt, "id")>>,
             ScopeFiles(lib), ScopeDirs)

NextBody ==
  \/ BuildAstBegin
  \/ BuildTopNode
  \/ FunctionEnter
  \/ BuildStatement
  \/ FunctionExit
  \/ BuildAstEnd

SpecBody == InitBody /\ [][NextBody]_vars

\* the built function definitions
Definitions == {f \in 1..Len(nodes) : nodes[f].k = "fdef" /\ nodes[f].built}
\* FunctionDefinition.build of f has returned or was left by an exception
BuildOver(f) == ~ (pc = "body" /\ cur = f)
\* the statements of flow scope f that a build has returned
BuiltIn(f) ==
  {i \in 1..Len(nodes[f].body) : nodes[f].body[i].k # "gen" /\ nodes[f].body[i].nbuilt > 0}
\* the control structures among the statements of flow scope f
Nested(f) ==
  {nodes[f].body[i].scope : i \in {j \in 1..Len(nodes[f].body) : nodes[f].body[j].k = "if"}}
\* every statement the parser returned for f was built, those of its control structures
\* included
EveryStatementBuilt(f) ==
  /\ Cardinality({nodes[f].body[i].sid : i \in BuiltIn(f)}) = Len(nodes[f].srcbody)
  /\ \A c \in Nested(f) : \A i \in 1..Len(nodes[c].body) :
       nodes[c].body[i].k # "gen" => nodes[c].body[i].nbuilt > 0

\* C17: a function definition beneath an Import never has its body parsed and keeps an
\* empty body; any other definition has its body parsed once per build, with
\* have_return_value true exactly when its return type is not @void, and every parsed
\* statement is built
C17_BodyParsedOutsideImports ==
  \A f \in Definitions :
    IF IsChildOfImport(nodes, f)
    THEN nodes[f].parses = 0 /\ nodes[f].body = <<>>
    ELSE BuildOver(f) =>
           /\ nodes[f].parses = 1
           /\ nodes[f].have_return = (nodes[f].typ # VoidType)
           /\ EveryStatementBuilt(f)


\* the function definition a flow scope belongs to
RECURSIVE FunctionOf(_)
FunctionOf(c) == IF nodes[c].k = "fdef" THEN c ELSE FunctionOf(nodes[c].parent)

\* the built flow scopes of function f: f and its control structures
ScopesOf(f) ==
  {c \in 1..Len(nodes) : /\ nodes[c].k \in {"fdef", "cs"}
                         /\ nodes[c].built
                         /\ FunctionOf(c) = f}
\* the statements that declare a generated variable of function f, as <<scope, position>>
Generated(f) ==
  {p \in ScopesOf(f) \X (1..(MaxBody + MaxBody)) :
     p[2] <= Len(nodes[p[1]].body) /\ nodes[p[1]].body[p[2]].k = "gen"}
GenName(p) == nodes[p[1]].body[p[2]].use
GenSid(p) == nodes[p[1]].body[p[2]].sid
\* the number of names generated for f before the one of statement p
Earlier(f, p) == Cardinality({q \in Generated(f) : GenSid(q) < GenSid(p)})
\* the declarations the user wrote in the scopes of f
UserDeclared(f) ==
  {d \in 1..Len(nodes) :
     /\ nodes[d].built
     /\ \E c \in ScopesOf(f) : InList(d, nodes[c].declarations)
     /\ \A p \in Generated(f) : nodes[p[1]].body[p[2]].decl # d}

\* C18: in one function definition the n-th generated name is __gen_fun_n, generated
\* names are pairwise distinct, from nested control structures too, and no generated
\* name is the name of a declaration the user wrote in the scopes of that function
C18_GeneratedNamesUnique ==
  \A f \in Definitions :
    /\ \A p \in Generated(f) : GenName(p) = "__gen_fun_" \o ToString(Earlier(f, p) + 1)
    /\ \A p, q \in Generated(f) : p # q => GenName(p) # GenName(q)
    /\ \A p \in Generated(f) : \A d \in UserDeclared(f) : nodes[d].name # GenName(p)


\* the nodes a lookup can start from: they are built, so their parent chain is set
LookupSites == {u \in 1..Len(nodes) : nodes[u].built}
\* the answer find_declaration gives at node u for name n
Answer(u, n) == FindDeclaration(nodes, u, n)
\* the scopes a lookup that starts at node u passes through, u included
RECURSIVE Enclosing(_)
Enclosing(u) == IF nodes[u].k = "ast" THEN {u} ELSE {u} \cup Enclosing(nodes[u].parent)

IsScope(ns, c) == ns[c].k \in {"ast", "import", "include", "fdef", "cs", "struct"}
\* the position at which node u is registered in a declarations list, past its end when
\* u is not in it
PosIn(list, u) ==
  IF InList(u, list) THEN CHOOSE i \in 1..Len(list) : list[i] = u ELSE Len(list) + 1
\* the declarations of name n that scope c had registered when the reference of node u was
\* looked up, as positions of its declarations list: u registers itself before it looks
\* its reference up, and an alias has no name until its reference is resolved
RegisteredAs(ns, c, n, u) ==
  {i \in 1..Len(ns[c].declarations) :
     /\ NameOf(ns, ns[c].declarations[i]) = n
     /\ i <= PosIn(ns[c].declarations, u)
     /\ ns[c].declarations[i] = u => ns[u].k # "alias"}
\* the earliest registered declaration of name n in scope c
Earliest(ns, c, n, u) ==
  ns[c].declarations[CHOOSE i \in RegisteredAs(ns, c, n, u) :
                       \A j \in RegisteredAs(ns, c, n, u) : i <= j]
\* the declaration of name n in the innermost scope around node c that had registered one
\* when the reference of u was looked up, 0 when no scope around c had
RECURSIVE Innermost(_, _, _, _)
Innermost(ns, c, n, u) ==
  IF IsScope(ns, c) /\ RegisteredAs(ns, c, n, u) # {} THEN Earliest(ns, c, n, u)
  ELSE IF ns[c].k = "ast" THEN 0
  ELSE Innermost(ns, ns[c].parent, n, u)

\* the statement the current turn of the body loop has just built
JustBuilt == nodes'[cur].body[nodes'[cur].counter]

\* the step builds node u, a node of the root file or of a file the step imports, and u
\* refers to a name
BuildsUse(u) ==
  /\ u > Len(nodes) \/ ~ nodes[u].built
  /\ nodes'[u].built
  /\ nodes'[u].use # NoName
\* the step builds an identifier statement of the function body
BuildsUseStatement ==
  /\ pc = "body" /\ pc' = "body"
  /\ nodes'[cur].counter > nodes[cur].counter
  /\ JustBuilt.k = "use"

\* the reference resolved to the innermost registered declaration, when there is one
InnermostOr(res, d) == d # 0 => res = d

\* C20: a lookup from a use site returns the declaration of that name registered in the
\* innermost enclosing scope that has one, and in that scope the one registered first: so
\* is every reference of a node of a module and every identifier statement of a function
\* body resolved when it is built
C20_InnermostFirst ==
  [][/\ \A u \in 1..Len(nodes') :
          BuildsUse(u) => InnermostOr(nodes'[u].res, Innermost(nodes', u, nodes'[u].use, u))
     /\ BuildsUseStatement => InnermostOr(JustBuilt.res, Innermost(nodes, cur, JustBuilt.use, 0))
    ]_vars

\* --- flow runs: a definition of main, with or without a parameter x, between optional
\*     root-level declarations of x, whose body uses and declares the names x and y, also
\*     inside control structures

MaxFlow == 3
\* an expression statement that is the identifier n
Use(n) == StmtItem("use", n, 0, <<>>)
FlowItems ==
  {Use(n) : n \in Names} \cup {Local(n) : n \in Names}
  \cup {If(NoName, 0, <<Use("x")>>), If(NoName, 0, <<Local("x")>>)}
MaybeX == {<<>>, <<Var("x", FALSE, NoName)>>}

InitFlow ==
  \E pre \in MaybeX : \E post \in MaybeX : \E ps \in {NoParams, <<Param("x", FALSE)>>} :
  \E n \in 1..MaxFlow : \E b \in [1..n -> FlowItems] :
    InitWith((pre \o <<FunDef("main", FALSE, ps, FALSE, b)>>) \o post, <<>>, <<>>)

NextFlow ==
  \/ BuildAstBegin
  \/ BuildTopNode
  \/ FunctionEnter
  \/ BuildStatement
  \/ FunctionExit
  \/ BuildAstEnd

SpecFlow == InitFlow /\ [][NextFlow]_vars

\* the built statements that are uses of a name
UseSites == {p \in BuiltStatements : StmtAt(p).k = "use"}
\* the declarations that statements j of flow scope f introduce, j taken from `js`
Introduced(f, js) ==
  {nodes[f].body[j].decl : j \in {i \in js : nodes[f].body[i].k \in {"decl", "gen"}}}
\* the declarations among ds that carry name n
Named(ds, n) == {d \in ds : nodes[d].name = n}
\* the position in its parent's body of the statement that owns control structure c
OwnerPosition(c) ==
  CHOOSE i \in 1..Len(nodes[nodes[c].parent].body) : nodes[nodes[c].parent].body[i].scope = c
\* the parameters of function definition f
ParametersOf(f) == {nodes[f].params[i] : i \in 1..Len(nodes[f].params)}
\* the declarations at the top level of the root module
RootDeclarations ==
  {d \in TopLevel : nodes[d].k \in DeclarationBaseKinds}
\* the declarations of name n that source order lets statement i of flow scope f see: those
\* of the statements before it and the parameters, else those the enclosing scope lets the
\* owner of f see, the module's top level being the outermost scope
RECURSIVE InSourceOrder(_, _, _)
InSourceOrder(f, i, n) ==
  IF nodes[f].k = "cs"
  THEN IF Named(Introduced(f, 1..(i - 1)), n) # {} THEN Named(Introduced(f, 1..(i - 1)), n)
       ELSE InSourceOrder(nodes[f].parent, OwnerPosition(f), n)
  ELSE IF Named(ParametersOf(f) \cup Introduced(f, 1..(i - 1)), n) # {}
       THEN Named(ParametersOf(f) \cup Introduced(f, 1..(i - 1)), n)
       ELSE Named(RootDeclarations, n)

\* C21: within a flow scope strict source order is observed: a use in statement i of a
\* body never resolves to a declaration introduced by a statement j > i of that body; it
\* resolves to a same-named declaration that precedes it or belongs to an enclosing scope
\* when there is one, and is reported as undeclared otherwise
C21_StrictSourceOrder ==
  \A p \in UseSites :
    /\ StmtAt(p).res \notin Introduced(p[1], (p[2] + 1)..Len(nodes[p[1]].body))
    /\ IF InSourceOrder(p[1], p[2], StmtAt(p).use) # {}
       THEN StmtAt(p).res \in InSourceOrder(p[1], p[2], StmtAt(p).use)
       ELSE StmtAt(p).res = 0 /\ Undeclared(StmtAt(p).use)

\* a use of x was resolved to the x of the module's top level although a later statement
\* of the same body declares a local x, which has been built since
C21_LaterDeclarationSkipped ==
  \E p \in UseSites : \E j \in (p[2] + 1)..Len(nodes[p[1]].body) :
    /\ nodes[p[1]].body[j].k = "decl"
    /\ nodes[p[1]].body[j].nbuilt > 0
    /\ nodes[nodes[p[1]].body[j].decl].name = StmtAt(p).use
    /\ StmtAt(p).res \in RootDeclarations

\* the innermost scope of store ns around node c, c itself when it is a scope
RECURSIVE ScopeAround(_, _)
ScopeAround(ns, c) == IF IsScope(ns, c) THEN c ELSE ScopeAround(ns, ns[c].parent)
\* declaration d was not built when the step began, and if the step built it, it did so
\* beneath node u, after u had looked it up
FoundUnbuilt(d, u) ==
  /\ d # 0
  /\ d <= Len(nodes)
  /\ ~ nodes[d].built
  /\ nodes'[d].built => nodes'[d].parent = u
\* the declarations the step appended to the predeclarations of the scope c
Predeclared(c) ==
  {nodes'[c].predeclarations[i] :
     i \in (IF c <= Len(nodes) THEN Len(nodes[c].predeclarations) + 1 ELSE 1)
           ..Len(nodes'[c].predeclarations)}
\* the predeclarations of scope c after the step
PredeclarationsOf(c) ==
  {nodes'[c].predeclarations[i] : i \in 1..Len(nodes'[c].predeclarations)}

\* C22: a lookup issued from a scope that resolves to a declaration not built yet leaves
\* that declaration in the predeclarations of the scope, and a declaration that was built
\* when it was found is never added to a predeclarations list
C22_UnbuiltIsPredeclared ==
  [][/\ \A u \in 1..Len(nodes') :
          BuildsUse(u) /\ FoundUnbuilt(nodes'[u].res, u)
            => nodes'[u].res \in PredeclarationsOf(ScopeAround(nodes', nodes'[u].parent))
     /\ BuildsUseStatement /\ FoundUnbuilt(JustBuilt.res, cur)
          => JustBuilt.res \in PredeclarationsOf(cur)
     /\ \A c \in 1..Len(nodes') : \A d \in Predeclared(c) :
          d <= Len(nodes) => ~ nodes[d].built
    ]_vars

\* the same, for the lookups that are not issued from the root module
C22_UnbuiltIsPredeclaredBelowRoot ==
  [][/\ \A u \in 1..Len(nodes') :
          BuildsUse(u) /\ FoundUnbuilt(nodes'[u].res, u)
          /\ ScopeAround(nodes', nodes'[u].parent) # RootId
            => nodes'[u].res \in PredeclarationsOf(ScopeAround(nodes', nodes'[u].parent))
     /\ BuildsUseStatement /\ FoundUnbuilt(JustBuilt.res, cur)
          => JustBuilt.res \in PredeclarationsOf(cur)
     /\ \A c \in 1..Len(nodes') : \A d \in Predeclared(c) :
          d <= Len(nodes) => ~ nodes[d].built
    ]_vars

\* --- reorder runs: a call expression whose callee symbol is wrapped in up to MaxWrap
\*     containers (references and arrays), held by the node that asked for its build

MaxWrap == 4
ContainerKinds == {"ref", "arr"}
\* a node of an expression: its kind, its parent link, the child link of a container, the
\* symbol link and the actuals of a call, and its ref_offset
ExprNode(k, parent, child, sym, nargs, ref_offset) ==
  [k |-> k, parent |-> parent, child |-> child, sym |-> sym, nargs |-> nargs,
   ref_offset |-> ref_offset]
\* the node whose build asked for the build of the call, and the call
HolderId == 1
CallId == HolderId + 1
\* the id of the i-th container, the outermost being the first
Wrap(i) == CallId + i
\* the expression after self.sym.build(self): node 1 holds the call, node 2 is the call,
\* its symbol is the first of the containers `kinds`, each holding the next, the last
\* holding the identifier; a reference to a value has lowered the ref_offset of its child
WrappedCall(kinds, nargs) ==
  <<ExprNode("holder", 0, CallId, 0, 0, 0),
    ExprNode("call", HolderId, 0, Wrap(1), nargs, 0)>>
  \o [i \in 1..Len(kinds) |->
        ExprNode(kinds[i], Wrap(i - 1), Wrap(i + 1), 0, 0,
                 IF i > 1 /\ kinds[i - 1] = "ref" THEN -1 ELSE 0)]
  \o <<ExprNode("id", Wrap(Len(kinds)), 0, 0, 0,
                IF kinds # <<>> /\ kinds[Len(kinds)] = "ref" THEN -1 ELSE 0)>>

\* one turn of the loop of FunctionCall._reorder, `sym` being self.sym:
\*   self.sym = sym.child; self.sym.parent = self; sym.child = self;
\*   sym.parent = self.parent; self.parent = sym
Rotate(g, call, sym) ==
  [g EXCEPT ![call].sym = g[sym].child,
            ![g[sym].child].parent = call,
            ![sym].child = call,
            ![sym].parent = g[call].parent,
            ![call].parent = sym]

RECURSIVE ReorderLoop(_, _, _)
\* while isinstance(self.sym, Container), `first` being the local `parent` (0 for None)
ReorderLoop(g, call, first) ==
  IF g[g[call].sym].k \in ContainerKinds
  THEN ReorderLoop(Rotate(g, call, g[call].sym), call,
                   IF first = 0 THEN g[call].sym ELSE first)
  ELSE [g |-> g, parent |-> first]

\* FunctionCall._reorder: the graph it leaves and the value it returns
Reorder(g, call) ==
  Bind(ReorderLoop(g, call, 0), LAMBDA r :
    IF r.parent = 0 THEN [g |-> r.g, root |-> call]
    ELSE [g |-> [r.g EXCEPT ![r.g[call].sym].ref_offset = 0], root |-> r.parent])

InitReorder ==
  \E k \in 0..MaxWrap : \E kinds \in [1..k -> ContainerKinds] : \E n \in 0..MaxActuals :
    /\ nodes = WrappedCall(kinds, n)
    /\ pc = "call"
    /\ files = <<>> /\ dirs = <<>> /\ failures = <<>> /\ imported = <<>>
    /\ included = <<>> /\ aliased = FALSE /\ parsed = <<>> /\ cur = 0 /\ abort = ""
    /\ sid = 0 /\ snap = <<>>

\* res = self._reorder() in FunctionCall.build, and the holder keeps what the build returns
CallReorder ==
  /\ pc = "call"
  /\ \E r \in {Reorder(nodes, CallId)} : nodes' = [r.g EXCEPT ![HolderId].child = r.root]
  /\ pc' = "reordered"
  /\ UNCHANGED <<files, dirs, failures, imported, included, aliased, parsed, cur, abort,
                 sid, snap>>

NextReorder == CallReorder

SpecReorder == InitReorder /\ [][NextReorder]_vars

\* the number of containers of the run, and the identifier they wrap
Wraps == Len(nodes) - 3
Wrapped == Len(nodes)
\* parent and child links agree on the edge below container c
EdgeAgrees(c) == nodes[nodes[c].child].parent = c

\* C23: after _reorder of a call whose symbol is wrapped in k >= 1 containers C1(..Ck(s)),
\* the returned root is C1, the child links lead from C1 through C2 .. Ck to the call, the
\* call's symbol is s, and parent and child links agree on every edge; for k = 0 the call
\* is returned as it was
C23_CallRotatedInward ==
  pc = "reordered" =>
    /\ nodes[CallId].sym = Wrapped
    /\ nodes[Wrapped].parent = CallId
    /\ IF Wraps = 0
       THEN nodes[HolderId].child = CallId /\ nodes[CallId].parent = HolderId
       ELSE /\ nodes[HolderId].child = Wrap(1)
            /\ nodes[Wrap(1)].parent = HolderId
            /\ \A i \in 1..(Wraps - 1) : nodes[Wrap(i)].child = Wrap(i + 1)
            /\ nodes[Wrap(Wraps)].child = CallId
            /\ \A i \in 1..Wraps : EdgeAgrees(Wrap(i))

\* the same for the calls whose symbol is wrapped in at most one container
C23_OneContainerRotated ==
  pc = "reordered" /\ Wraps <= 1 =>
    /\ nodes[CallId].sym = Wrapped
    /\ nodes[Wrapped].parent = CallId
    /\ IF Wraps = 0
       THEN nodes[HolderId].child = CallId /\ nodes[CallId].parent = HolderId
       ELSE /\ nodes[HolderId].child = Wrap(1)
            /\ nodes[Wrap(1)].parent = HolderId
            /\ nodes[Wrap(1)].child = CallId
            /\ EdgeAgrees(Wrap(1))

\* --- arity runs: a function x with up to MaxParams parameters, any of them with a default
\*     value, variadic or not, declared in the root module or in the header h, and a
\*     definition of main that calls it with 0..MaxActuals actuals

\* the parameters p1..pm, the i-th with a default value when defs[i]
ParamsWith(defs) == [i \in 1..Len(defs) |-> Param("p" \o ToString(i), defs[i])]

InitArity ==
  \E m \in 0..MaxParams : \E defs \in [1..m -> BOOLEAN] : \E v \in BOOLEAN :
  \E native \in BOOLEAN :
  \E n \in 0..MaxActuals : \E k \in 0..(MaxBody - 1) : \E r \in [1..k -> FollowItems] :
    InitWith((IF native THEN <<FunDecl("x", FALSE, ParamsWith(defs), v)>>
              ELSE <<Include(<<"h">>)>>) \o <<Main(<<Call("x", n)>> \o r)>>,
             (<<"h">> :> [err |-> FALSE,
                          nodes |-> IF native THEN <<>>
                                    ELSE <<FunDecl("x", FALSE, ParamsWith(defs), v)>>]),
             <<>>)

NextArity ==
  \/ BuildAstBegin
  \/ BuildTopNode
  \/ FunctionEnter
  \/ BuildStatement
  \/ FunctionExit
  \/ BuildAstEnd

SpecArity == InitArity /\ [][NextArity]_vars

\* the function the call just built calls, 0 when its symbol stands for none
JustCalled == Canonical(nodes', JustBuilt.res)
\* the step builds a call statement of the function body whose symbol is a function
BuildsCall ==
  /\ pc = "body" /\ pc' = "body"
  /\ nodes'[cur].counter > nodes[cur].counter
  /\ JustBuilt.k = "call"
  /\ JustCalled # 0
  /\ nodes'[JustCalled].k \in {"fdecl", "fdef"}
\* the declared parameters of the called function, and whether the i-th has a default
Declared == nodes'[JustCalled].params
HasDefault(i) == nodes'[Declared[i]].def
\* the parameters after the n-th that are reached before one without a default value
Defaulted(n) ==
  {e \in (n + 1)..Len(Declared) : \A j \in (n + 1)..e : HasDefault(j)}
\* the actuals the claim prescribes for a call written with the actuals src
Prescribe(src) ==
  src \o [j \in 1..Cardinality(Defaulted(Len(src))) |-> Default(Len(src) + j)]
\* the statement inserted before the call just built, when its tail was put in an array
JustInserted == nodes'[cur].body[nodes'[cur].counter - 1]
\* the actuals the call had when _check_args returned: a lowered call keeps the fixed ones
\* and the inserted array holds the others
Checked ==
  IF nodes'[cur].counter = nodes[cur].counter + 2
  THEN SubSeq(JustBuilt.args, 1, Len(JustBuilt.args) - 2) \o JustInserted.init
  ELSE JustBuilt.args
\* the diagnostics the step recorded, and those about the number of actuals
Reported == SubSeq(failures', Len(failures) + 1, Len(failures'))
ArityReports == {i \in 1..Len(Reported) : Reported[i].msg \in ArityWarnings}
\* the number of actuals is wrong for the called function
WrongArity(n) ==
  \/ n < Len(Declared)
  \/ n > Len(Declared) /\ ~ nodes'[JustCalled].variadic

\* C24: a call with n actuals to a function with m parameters gets its missing trailing
\* actuals from the default values of the parameters after the n-th, in order, up to the
\* first one that has none; then exactly one diagnostic, a Warning, is reported when the
\* actuals are fewer than m, or more than m for a function that is not variadic, and no
\* diagnostic about the number of actuals otherwise
C24_DefaultsThenOneWarning ==
  [][BuildsCall =>
       /\ Checked = Prescribe(JustBuilt.src)
       /\ \A i \in ArityReports : Reported[i].sev = "Warning"
       /\ Cardinality(ArityReports) = IF WrongArity(Len(Checked)) THEN 1 ELSE 0
    ]_vars

\* a call written without actuals was given the default value of the first parameter, not
\* one for the second, which has none, and one warning about too few actuals is recorded
C24_FilledUpToMissingDefault ==
  \E p \in CallSites :
    /\ IsFunction(Callee(p))
    /\ Arity(p) = 2
    /\ nodes[nodes[Callee(p)].params[1]].def
    /\ ~ nodes[nodes[Callee(p)].params[2]].def
    /\ StmtAt(p).src = <<>>
    /\ SubSeq(StmtAt(p).args, 1, 1) = <<Default(1)>>
    /\ Cardinality({i \in 1..Len(failures) : failures[i].msg \in ArityWarnings}) = 1
    /\ \A i \in 1..Len(failures) : failures[i].sev = "Warning"

\* --- type runs: a type and a second operand, which is a type or the symbol of a type, of
\*     up to MaxTypeDepth container layers over a builtin name; the second operand may be
\*     the very node object of the first

\* a node that is a type or a symbol: the object, its layers, and what has been read of it
TypeObject(obj, t, symbol) ==
  [obj |-> obj, typ |-> t, symbol |-> symbol, any_memory_offset |-> -1, eq |-> <<>>]
LeftId == RootId
RightId == LeftId + 1

InitType ==
  \E dl \in 0..MaxTypeDepth : \E dr \in 0..MaxTypeDepth :
  \E ll \in Layers(dl) : \E lr \in Layers(dr) : \E bl \in Builtins : \E br \in Builtins :
  \E symbol \in BOOLEAN : \E same \in BOOLEAN :
    /\ same => /\ ~ symbol
               /\ ll = lr
               /\ bl = br
    /\ nodes = <<TypeObject(LeftId, [pre |-> ll, base |-> bl], FALSE),
                 TypeObject(IF same THEN LeftId ELSE RightId, [pre |-> lr, base |-> br],
                            symbol)>>
    /\ pc = "types"
    /\ files = <<>> /\ dirs = <<>> /\ failures = <<>> /\ imported = <<>>
    /\ included = <<>> /\ aliased = FALSE /\ parsed = <<>> /\ cur = 0 /\ abort = ""
    /\ sid = 0 /\ snap = <<>>

\* node.any_memory_offset
ReadOffset(n) ==
  IF n.symbol THEN SymbolAnyMemoryOffset(n.typ) ELSE AnyMemoryOffset(n.typ)

\* both operands are asked for their any_memory_offset
ReadAnyMemoryOffset ==
  /\ pc = "types"
  /\ nodes' = [i \in 1..Len(nodes) |->
                 [nodes[i] EXCEPT !.any_memory_offset = ReadOffset(nodes[i])]]
  /\ pc' = "read"
  /\ UNCHANGED <<files, dirs, failures, imported, included, aliased, parsed, cur, abort,
                 sid, snap>>

\* a.__eq__(b): BuiltinType replaces a symbol by its declaration and compares the names of
\* builtin types; every other class has the method of object, which knows the node itself
EqMethod(a, b) ==
  IF ~ a.symbol /\ ~ IsContainer(a.typ)
  THEN IF ~ IsContainer(b.typ) /\ a.typ.base = b.typ.base THEN "True" ELSE "False"
  ELSE IF a.obj = b.obj THEN "True" ELSE "NotImplemented"

\* a == b: the method of a, the method of b when a's does not know, else identity
TypeEq(a, b) ==
  IF EqMethod(a, b) # "NotImplemented" THEN EqMethod(a, b) = "True"
  ELSE IF EqMethod(b, a) # "NotImplemented" THEN EqMethod(b, a) = "True"
  ELSE a.obj = b.obj

\* the first operand is compared with itself and with the second, both ways round
CompareTypes ==
  /\ pc = "read"
  /\ nodes' = [nodes EXCEPT ![LeftId].eq =
                 [self |-> TypeEq(nodes[LeftId], nodes[LeftId]),
                  rhs |-> TypeEq(nodes[LeftId], nodes[RightId]),
                  back |-> TypeEq(nodes[RightId], nodes[LeftId])]]
  /\ pc' = "compared"
  /\ UNCHANGED <<files, dirs, failures, imported, included, aliased, parsed, cur, abort,
                 sid, snap>>

NextType ==
  \/ ReadAnyMemoryOffset
  \/ CompareTypes

SpecType == InitType /\ [][NextType]_vars

\* C25: any_memory_offset of a type built from a builtin type by array and reference
\* layers is 0 exactly when its innermost element type is @str and 1 otherwise, and the
\* Array symbol reports 0 whatever its element is
C25_OffsetOfInnermostElement ==
  pc \in {"read", "compared"} =>
    \A i \in 1..Len(nodes) :
      /\ ~ nodes[i].symbol =>
           nodes[i].any_memory_offset = (IF nodes[i].typ.base = "@str" THEN 0 ELSE 1)
      /\ nodes[i].symbol /\ IsArrayType(nodes[i].typ) => nodes[i].any_memory_offset = 0

\* the offsets were read of a reference to an array of @str, which is 0, and of the Array
\* symbol of an element that is not @str, which is 0 as well
C25_StringBeneathLayers ==
  /\ pc = "read"
  /\ nodes[LeftId].typ = [pre |-> <<"ref", "arr">>, base |-> "@str"]
  /\ nodes[LeftId].any_memory_offset = 0
  /\ nodes[RightId].symbol
  /\ nodes[RightId].typ = [pre |-> <<"arr">>, base |-> "@int"]
  /\ nodes[RightId].any_memory_offset = 0

\* both operands are builtin, or both are references, or both are arrays
SameKind(a, b) ==
  \/ ~ IsContainer(a.typ) /\ ~ IsContainer(b.typ)
  \/ IsReferenceType(a.typ) /\ IsReferenceType(b.typ)
  \/ IsArrayType(a.typ) /\ IsArrayType(b.typ)

\* C28: type equality is structural: two builtin types are equal exactly when their names
\* are, two reference types and two array types exactly when their children are, also as
\* distinct node objects; a symbol on the right-hand side counts as its declaration; the
\* relation is reflexive and symmetric
C28_StructuralEquality ==
  pc = "compared" =>
    /\ SameKind(nodes[LeftId], nodes[RightId]) =>
         nodes[LeftId].eq.rhs = (nodes[LeftId].typ = nodes[RightId].typ)
    /\ nodes[LeftId].eq.self
    /\ nodes[LeftId].eq.rhs = nodes[LeftId].eq.back

\* the same, the equality of two container types being claimed for one node object only
C28_BuiltinEquality ==
  pc = "compared" =>
    /\ (\/ ~ IsContainer(nodes[LeftId].typ) /\ ~ IsContainer(nodes[RightId].typ)
        \/ nodes[LeftId].obj = nodes[RightId].obj) =>
         nodes[LeftId].eq.rhs = (nodes[LeftId].typ = nodes[RightId].typ)
    /\ nodes[LeftId].eq.self
    /\ nodes[LeftId].eq.rhs = nodes[LeftId].eq.back

\* --- reference runs: `ref^s(B) x;  ref^s(B) f();  ref^t(B) y = v;` where v is x, f() or a
\*     number literal, whose type is @int, and B is a builtin type other than @any

MaxRefs == 3
Bases == {"@int", "@bool", "@str"}

InitRef ==
  \E s \in 0..MaxRefs : \E t \in 0..MaxRefs : \E b \in Bases :
  \E vk \in {"id", "call", "num"} :
    /\ vk = "num" => s = 0 /\ b = "@int"
    /\ InitWith(<<Typed(Var("x", FALSE, NoName), References(s, b), "id"),
                  Typed(FunDecl("f", FALSE, NoParams, FALSE), References(s, b), "id"),
                  Typed(Var("y", FALSE, InitialiserOf(vk)), References(t, b), vk)>>,
                (<<"h">> :> [err |-> FALSE, nodes |-> <<>>]), <<>>)

NextRef ==
  \/ BuildAstBegin
  \/ BuildTopNode
  \/ BuildAstEnd

SpecRef == InitRef /\ [][NextRef]_vars

\* the built variable declarations initialised with a value
Valued ==
  {d \in 1..Len(nodes) : /\ nodes[d].built
                         /\ nodes[d].k = "var"
                         /\ (nodes[d].use # NoName \/ nodes[d].vkind = "num")}
\* the type of the value that initialises d: Number.typ is @int
ValueTyp(d) == IF nodes[d].vkind = "num" THEN IntType ELSE InitialiserTyp(nodes, d)

\* C26: a value of type ref^s(B) that is auto_cast to the type ref^t(B) of the same base is
\* left with ref_offset s - t and without a cast, whatever kind of value it is, a literal
\* included
C26_OffsetIsLevelDifference ==
  \A d \in Valued :
    Unreferenced(ValueTyp(d)) = Unreferenced(nodes[d].typ)
      => /\ nodes[d].ref_offset = RefOffset(ValueTyp(d)) - RefOffset(nodes[d].typ)
         /\ nodes[d].cast = NoCast

\* the same for the values that are no literals
C26_OffsetOfSymbols ==
  \A d \in Valued :
    nodes[d].vkind # "num" /\ Unreferenced(ValueTyp(d)) = Unreferenced(nodes[d].typ)
      => /\ nodes[d].ref_offset = RefOffset(ValueTyp(d)) - RefOffset(nodes[d].typ)
         /\ nodes[d].cast = NoCast

\* --- position runs: a definition of main at the top level of the root module whose body
\*     starts at position b; one diagnostic arises at position p, in a parameter of the
\*     signature, in the body grammar, or in a statement of the parsed body

MaxPos == 4
Origins == {"signature", "grammar", "statement"}
\* a node that has a position and reports a diagnostic of severity `sev` when it is built
\* and `fails`; body_pos is body_str.pos of a function definition
PosNode(k, parent, pos, fails, sev) ==
  [k |-> k, parent |-> parent, pos |-> pos, fails |-> fails, sev |-> sev, body_pos |-> 0]
FunctionId == RootId + 1
ParameterId == FunctionId + 1
StatementId == ParameterId + 1

InitPos ==
  \E b \in 0..MaxPos : \E p \in 0..MaxPos : \E origin \in Origins :
  \E sev \in {"Warning", "Error"} :
    /\ nodes = <<PosNode("ast", 0, 0, FALSE, sev),
                 [PosNode("fdef", RootId, 0, FALSE, sev) EXCEPT !.body_pos = b],
                 PosNode("param", FunctionId, p, origin = "signature", sev),
                 PosNode("stmt", FunctionId, p, origin = "statement", sev)>>
    /\ files = [raised |-> origin = "grammar",
                failures |-> <<[sev |-> "Fatal", pos |-> p, msg |-> "expected"]>>]
    /\ failures = <<>>
    /\ pc = "signature"
    /\ abort = ""
    /\ dirs = <<>> /\ imported = <<>> /\ included = <<>> /\ aliased = FALSE
    /\ parsed = <<>> /\ cur = FunctionId /\ sid = 0 /\ snap = <<>>

\* AST.fail: the failure is recorded at the position it arrives with
AstFail(fs, sev, pos, msg) == Append(fs, [sev |-> sev, pos |-> pos, msg |-> msg])

RECURSIVE NodeFail(_, _, _, _, _, _)
\* node.fail(severity, pos, msg): Node.fail hands the failure to the parent,
\* FunctionDefinition.fail adds the position of its body on the way, AST.fail records it
NodeFail(g, fs, id, sev, pos, msg) ==
  CASE g[id].k = "ast" -> AstFail(fs, sev, pos, msg)
    [] g[id].k = "fdef" -> NodeFail(g, fs, g[id].parent, sev, pos + g[id].body_pos, msg)
    [] OTHER -> NodeFail(g, fs, g[id].parent, sev, pos, msg)

\* the build of a node that may report a diagnostic at its own position
FailingBuild(g, fs, id) ==
  IF g[id].fails THEN NodeFail(g, fs, id, g[id].sev, g[id].pos, "diagnostic") ELSE fs

RECURSIVE Caught(_, _, _, _, _)
\* except ParseError as err: for f in err.failures:
\*   self.fail(f.severity, f.pos + self.body_str.pos, f.msg)
Caught(g, fs, id, errs, i) ==
  IF i > Len(errs) THEN fs
  ELSE Caught(g, NodeFail(g, fs, id, errs[i].sev, errs[i].pos + g[id].body_pos, errs[i].msg),
              id, errs, i + 1)

\* the first super().build(parent) of FunctionDefinition.build: the signature is built
SignatureBuild ==
  /\ pc = "signature"
  /\ failures' = FailingBuild(nodes, failures, ParameterId)
  /\ pc' = "parse"
  /\ UNCHANGED <<files, dirs, nodes, imported, included, aliased, parsed, cur, abort, sid,
                 snap>>

\* function.parse raises ParseError, which FunctionDefinition.build catches
BodyRejected ==
  /\ pc = "parse"
  /\ files.raised
  /\ failures' = Caught(nodes, failures, FunctionId, files.failures, 1)
  /\ pc' = "built"
  /\ UNCHANGED <<files, dirs, nodes, imported, included, aliased, parsed, cur, abort, sid,
                 snap>>

\* function.parse returns the body, and the second super().build(parent) builds its
\* statements, then the signature once more
BodyBuilt ==
  /\ pc = "parse"
  /\ ~ files.raised
  /\ failures' = FailingBuild(nodes, FailingBuild(nodes, failures, StatementId), ParameterId)
  /\ pc' = "built"
  /\ UNCHANGED <<files, dirs, nodes, imported, included, aliased, parsed, cur, abort, sid,
                 snap>>

NextPos ==
  \/ SignatureBuild
  \/ BodyRejected
  \/ BodyBuilt

SpecPos == InitPos /\ [][NextPos]_vars

\* the position the claim prescribes for the diagnostic of the run
PrescribedPos ==
  IF nodes[ParameterId].fails THEN nodes[ParameterId].pos
  ELSE IF files.raised THEN files.failures[1].pos + nodes[FunctionId].body_pos
  ELSE nodes[StatementId].pos + nodes[FunctionId].body_pos

\* C27: a diagnostic that originates in a function body, raised as a ParseError by the
\* body grammar or reported through fail by a node of the built body, is recorded at the
\* root at its body-relative position plus the position of the body, and a diagnostic that
\* originates in the signature is recorded at its own position
C27_BodyOffsetAddedOnce ==
  pc = "built" =>
    /\ failures # <<>>
    /\ \A i \in 1..Len(failures) : failures[i].pos = PrescribedPos

\* the same for the diagnostics that nodes of the built body report through fail
C27_StatementOffset ==
  pc = "built" /\ nodes[StatementId].fails =>
    /\ failures # <<>>
    /\ \A i \in 1..Len(failures) : failures[i].pos = PrescribedPos


\* --- the two global collections of a build, checked on the runs of SpecImport

\* the step is one turn of the loop of build_ast over a root node of kind k
BuildsTop(k) ==
  /\ pc = "nodes"
  /\ nodes'[RootId].counter > nodes[RootId].counter
  /\ nodes[NextTop].k = k
\* the Import and Include nodes of the files the step parses
ParsedInclusions(k) == {u \in (Len(nodes) + 1)..Len(nodes') : nodes'[u].k = k}
\* the entry of import_paths at which Import.parse of `lib` stops, 0 for none
Stops(lib, i) ==
  \/ (ImportPaths[i] \o lib) \in DOMAIN dirs
  \/ EhExt(ImportPaths[i] \o lib) \in DOMAIN files
FirstHit(lib) ==
  IF \E i \in 1..Len(ImportPaths) : Stops(lib, i)
  THEN CHOOSE i \in 1..Len(ImportPaths) : Stops(lib, i) /\ \A j \in 1..(i - 1) : ~ Stops(lib, j)
  ELSE 0
\* the import of the step resolves to a file, and no Import was built before it
FirstImportOfFile ==
  /\ BuildsTop("import")
  /\ \A u \in 1..Len(nodes) : nodes[u].k = "import" => ~ nodes[u].built
  /\ FirstHit(nodes[NextTop].lib) # 0
  /\ (ImportPaths[FirstHit(nodes[NextTop].lib)] \o nodes[NextTop].lib) \notin DOMAIN dirs

\* C29: the imported and included collections are independent throughout a build: an
\* Include records its header in included only, an Import that parses no Include leaves
\* included alone, and a header recorded under the name of a file never keeps the first
\* Import of that file from parsing it
C29_CollectionsIndependent ==
  [][/\ BuildsTop("include") => imported' = imported
     /\ (BuildsTop("import") /\ ParsedInclusions("include") = {}) => included' = included
     /\ FirstImportOfFile => Len(parsed') > Len(parsed)]_vars

\* what the code keeps instead: from the reset of build_ast on, the two globals hold the
\* same entries in the same order
C29_CollectionsCoincide == pc # "init" => imported = included


\* --- parameter runs: variables, body-less function declarations and function definitions
\*     whose one parameter carries a name that the other nodes use

MaxOwners == 2   \* top-level nodes of the root module in the parameter runs

Bodies == {<<>>} \cup {<<StmtItem("use", u, 0, <<>>)>> : u \in Names}
ParamItems ==
  UNION {
    {Var(n, FALSE, u) : u \in {NoName, Other(n)}}
    \cup {FunDecl(n, FALSE, <<Param(m, FALSE)>>, FALSE) : m \in Names}
    \cup {FunDef(n, FALSE, <<Param(m, FALSE)>>, FALSE, b) : m \in Names, b \in Bodies}
    : n \in Names}

InitParam ==
  \E r \in 1..MaxOwners : \E rp \in [1..r -> ParamItems] :
    InitWith(rp, ScopeFiles(<<>>), ScopeDirs)

NextParam ==
  \/ BuildAstBegin
  \/ BuildTopNode
  \/ FunctionEnter
  \/ BuildStatement
  \/ FunctionExit
  \/ BuildAstEnd

SpecParam == InitParam /\ [][NextParam]_vars

\* the built function declarations and definitions
Functions == {f \in 1..Len(nodes) : nodes[f].built /\ nodes[f].k \in {"fdecl", "fdef"}}
\* node id is f or lies beneath f
RECURSIVE Encloses(_, _)
Encloses(f, id) ==
  IF id = f THEN TRUE
  ELSE IF id = 0 \/ nodes[id].k = "ast" THEN FALSE
  ELSE Encloses(f, nodes[id].parent)
\* the module and import scopes
ModuleScopes == {c \in 1..Len(nodes) : nodes[c].k \in {"ast", "import"}}
\* parameter p of function f is known to no module scope and to no use site outside f
LocalTo(f, p) ==
  /\ \A c \in ModuleScopes : ~ InList(p, nodes[c].declarations)
  /\ \A u \in NodeUses : ~ Encloses(f, u) => nodes[u].res # p
  /\ \A s \in UseSites : ~ Encloses(f, s[1]) => StmtAt(s).res # p

\* C30: a named parameter of a function definition or of a body-less function declaration
\* is registered only in that function's own scope: no module or import scope lists it, and
\* no use site outside the function resolves to it
C30_ParametersStayLocal ==
  \A f \in Functions : \A p \in ParametersOf(f) : nodes[p].built => LocalTo(f, p)

\* what the code keeps: the parameters of a function definition are local to it
C30_DefinitionParametersLocal ==
  \A f \in Functions : \A p \in ParametersOf(f) :
    (nodes[f].k = "fdef" /\ nodes[p].built) => LocalTo(f, p)

====
